---- MODULE Spec2Model ----
(***************************************************************************)
(* A model of the auto-expander text-expansion engine: trigger compilation *)
(* and matching (core.ts), snippet validation (snippet-utils.ts), and the  *)
(* input handlers and snippet executor (services/).                        *)
(*                                                                         *)
(* A string is a sequence of one-character strings; offsets are 0-based as *)
(* in the source, so the character at offset j of t is t[j + 1].           *)
(*                                                                         *)
(* The repository holds several revisions of core.ts.  The revision        *)
(* modelled is the one its tests (tests/validation/matching.test.ts) and   *)
(* services/regex-matcher.ts are written against: the one that marks the   *)
(* cursor with the private-use character U+E000.                           *)
(***************************************************************************)
EXTENDS Integers, Sequences, FiniteSets, TLC

VARIABLES
    mIn,        \* matching probe: the inputs (trigger, text, cursorPos)
    mPc,        \* matching probe: "input", "compiled", "matched", or "off"
    mCompiled,  \* matching probe: the result of compileTrigger
    mResult,    \* matching probe: the result of matchesTrigger per event type
    loadedFrom,           \* SnippetService: the argument of the last loadSnippetsFromRaw
    parsedSnippets,       \* SnippetService fields
    snippetMap,
    snippetsValid,
    compiledTriggers,
    lastValidationError,
    lastValidSnippets,
    docText,      \* editor: the text of the note
    docCursor,    \* editor: the cursor as a character offset
    selected,     \* editor: somethingSelected()
    phase,        \* event loop: which listener of the keystroke in dispatch runs next
    evt,          \* event loop: the keystroke in dispatch
    timers,       \* event loop: the window.setTimeout callbacks not yet run
    userActions,  \* how many keystrokes and selections the user has made
    pendingInstantInput,           \* instant-input-handler: pendingInstantInput
    lastKeyboardInstantTimestamp,  \* ExpansionService: "null", "recent" (< 64 ms ago) or "old"
    executing,    \* SnippetExecutor: executing
    calls,        \* SnippetExecutor: the executeSnippet invocations suspended at an await
    started,      \* how many invocations have passed the guard of executeSnippet
    lastCall,     \* what the latest call of executeSnippet did: "started" or "rejected"
    lastOutcome,  \* how the latest invocation to end ended
    commandLog,   \* the ids handed to executeCommandById, in order
    settingsJsonc,    \* AutoExpander: settings.snippetsJsonc
    savedJsonc,       \* the snippetsJsonc of the plugin data on disk
    listenerValid,    \* the snippetsValid the registered listeners were created with
    mainPc,           \* AutoExpander: "unloaded", "idle", or "reloading" inside resetToLastValidSnippets;
                      \* after onunload "gone", or "reloading after unload"
    loads,            \* how many times loadSnippets has been called since onload
    lastLoadFailed,   \* whether the latest loadSnippets returned a configuration error
    commandDelay,     \* CommandExecutionService: commandDelay, in milliseconds
    listeners,        \* the sets of expansion listeners registered on the document, by number
    unregisterExpansionListener  \* AutoExpander: the set its teardown handle removes, 0 when undefined

probeVars == <<mIn, mPc, mCompiled, mResult>>

serviceVars ==
    <<loadedFrom, parsedSnippets, snippetMap, snippetsValid, compiledTriggers,
      lastValidationError, lastValidSnippets>>

editorVars == <<docText, docCursor, selected>>

loopVars == <<phase, evt, timers, userActions>>

handlerVars == <<pendingInstantInput, lastKeyboardInstantTimestamp>>

executorVars == <<executing, calls, started, lastCall, lastOutcome, commandLog>>

settingsVars ==
    <<settingsJsonc, savedJsonc, listenerValid, mainPc, loads, lastLoadFailed, commandDelay,
      listeners, unregisterExpansionListener>>

mainVars == <<editorVars, loopVars, handlerVars, executorVars, settingsVars>>

vars == <<probeVars, serviceVars, mainVars>>

None == "none"

(***************************************************************************)
(* Bounds of the model.                                                    *)
(***************************************************************************)
MaxTextLen == 4

MaxLiteralLen == 2

MaxSnippets == 3

(***************************************************************************)
(* Strings.                                                                *)
(***************************************************************************)
\* An index argument of String.prototype.slice: negative counts from the end,
\* and the result is clamped to the string.
SliceIndex(s, k) ==
    IF k < 0 THEN (IF Len(s) + k < 0 THEN 0 ELSE Len(s) + k)
    ELSE IF k > Len(s) THEN Len(s) ELSE k

Slice(s, from, to) == SubSeq(s, SliceIndex(s, from) + 1, SliceIndex(s, to))

SliceFrom(s, from) == SubSeq(s, SliceIndex(s, from) + 1, Len(s))

Includes(s, c) == \E i \in 1..Len(s) : s[i] = c

StartsWith(s, c) == Len(s) > 0 /\ s[1] = c

EndsWith(s, c) == Len(s) > 0 /\ s[Len(s)] = c

RECURSIVE Join(_)
Join(parts) == IF parts = <<>> THEN <<>> ELSE Head(parts) \o Join(Tail(parts))

RECURSIVE StrsUpTo(_, _)
StrsUpTo(alphabet, n) ==
    IF n = 0 THEN {<<>>}
    ELSE LET shorter == StrsUpTo(alphabet, n - 1)
         IN  shorter \cup {Append(s, c) : s \in shorter, c \in alphabet}

(***************************************************************************)
(* core.ts: constants.                                                     *)
(***************************************************************************)
CURSOR_MARKER_CHAR == "U+E000"

VALID_TRIGGER_OPTIONS == <<"instant", "space", "tab", "enter", "newline", "backspace">>

\* The spelling of an option token, as it is written inside a trigger.
Spell(name) ==
    CASE name = "instant"   -> <<"i", "n", "s", "t", "a", "n", "t">>
      [] name = "space"     -> <<"s", "p", "a", "c", "e">>
      [] name = "tab"       -> <<"t", "a", "b">>
      [] name = "enter"     -> <<"e", "n", "t", "e", "r">>
      [] name = "newline"   -> <<"n", "e", "w", "l", "i", "n", "e">>
      [] name = "backspace" -> <<"b", "a", "c", "k", "s", "p", "a", "c", "e">>

REGEX_SPECIALS == {".", "*", "+", "?", "^", "$", "{", "}", "(", ")", "|", "[", "]", "\\"}

RECURSIVE escapeRegex(_)
escapeRegex(text) ==
    IF text = <<>> THEN <<>>
    ELSE (IF Head(text) \in REGEX_SPECIALS THEN <<"\\", Head(text)>> ELSE <<Head(text)>>)
         \o escapeRegex(Tail(text))

(***************************************************************************)
(* The cursor placeholder, /\$\{?0(?::([^}]+))?\}?/ : "$", an optional     *)
(* "{", "0", an optional ":" with one or more characters other than "}",   *)
(* an optional "}".                                                        *)
(***************************************************************************)
CharAt(s, k) == IF k >= 0 /\ k < Len(s) THEN s[k + 1] ELSE None

RECURSIVE RunOfNonBrace(_, _)
RunOfNonBrace(s, k) ==
    IF k < Len(s) /\ s[k + 1] # "}" THEN RunOfNonBrace(s, k + 1) ELSE k

\* The match of the placeholder pattern that starts at offset i, if there is one.
CursorMarkerAt(s, i) ==
    LET zero == IF CharAt(s, i) # "$" THEN -1
                ELSE IF CharAt(s, i + 1) = "{" /\ CharAt(s, i + 2) = "0" THEN i + 2
                ELSE IF CharAt(s, i + 1) = "0" THEN i + 1
                ELSE -1
        k == zero + 1
        hasOpts == CharAt(s, k) = ":" /\ CharAt(s, k + 1) \notin {None, "}"}
        k2 == IF hasOpts THEN RunOfNonBrace(s, k + 1) ELSE k
        end == IF CharAt(s, k2) = "}" THEN k2 + 1 ELSE k2
    IN  IF zero < 0 THEN [found |-> FALSE]
        ELSE [found |-> TRUE, index |-> i, end |-> end,
              text |-> Slice(s, i, end),
              hasOpts |-> hasOpts,
              opts |-> IF hasOpts THEN Slice(s, k + 1, k2) ELSE <<>>]

\* RegExp.prototype.exec of the placeholder pattern, scanning from lastIndex.
RECURSIVE CursorMarkerExec(_, _)
RECURSIVE CursorMarkerTry(_, _, _)
CursorMarkerExec(s, lastIndex) ==
    IF lastIndex >= Len(s) THEN [found |-> FALSE]
    ELSE CursorMarkerTry(s, lastIndex, CursorMarkerAt(s, lastIndex))

CursorMarkerTry(s, lastIndex, here) ==
    IF here.found THEN here ELSE CursorMarkerExec(s, lastIndex + 1)

(***************************************************************************)
(* snippet-utils.ts: parseCursorMarkerOptions.                             *)
(***************************************************************************)
RECURSIVE SplitOn(_, _)
SplitOn(s, sep) ==
    IF ~Includes(s, sep) THEN <<s>>
    ELSE LET i == CHOOSE k \in 1..Len(s) : s[k] = sep /\ \A j \in 1..(k - 1) : s[j] # sep
         IN  <<SubSeq(s, 1, i - 1)>> \o SplitOn(SubSeq(s, i + 1, Len(s)), sep)

WHITESPACE == {" ", "\t", "\n"}

RECURSIVE Trim(_)
Trim(s) ==
    IF s = <<>> THEN s
    ELSE IF Head(s) \in WHITESPACE THEN Trim(Tail(s))
    ELSE IF s[Len(s)] \in WHITESPACE THEN Trim(SubSeq(s, 1, Len(s) - 1))
    ELSE s

\* The vocabulary word a token spells, or None.
OptionNamed(tok) ==
    IF \E k \in 1..Len(VALID_TRIGGER_OPTIONS) : Spell(VALID_TRIGGER_OPTIONS[k]) = tok
    THEN VALID_TRIGGER_OPTIONS[CHOOSE k \in 1..Len(VALID_TRIGGER_OPTIONS) :
                                   Spell(VALID_TRIGGER_OPTIONS[k]) = tok]
    ELSE None

ValidOptionToken(tok) == Len(tok) > 0 /\ OptionNamed(tok) # None

\* Variant: every token kept, recognised or not.
KeepAllTokens(toks) == [k \in 1..Len(toks) |-> OptionNamed(Trim(toks[k]))]

KeepIfValid(tok) == IF ValidOptionToken(tok) THEN <<OptionNamed(tok)>> ELSE <<>>

RECURSIVE FilterOptions(_)
FilterOptions(toks) ==
    IF toks = <<>> THEN <<>>
    ELSE KeepIfValid(Trim(Head(toks))) \o FilterOptions(Tail(toks))

\* Variant: only the first option of the list is read.
FirstOptionOfMatch(cursorMarkerMatch) ==
    IF ~cursorMarkerMatch.found THEN <<>>
    ELSE IF ~cursorMarkerMatch.hasOpts THEN <<>>
    ELSE FilterOptions(<<Head(SplitOn(cursorMarkerMatch.opts, ","))>>)


OptionsOfMatch(cursorMarkerMatch) ==
    IF ~cursorMarkerMatch.found THEN <<>>
    ELSE IF ~cursorMarkerMatch.hasOpts THEN <<>>
    ELSE FilterOptions(SplitOn(cursorMarkerMatch.opts, ","))

parseCursorMarkerOptions(trigger) == OptionsOfMatch(CursorMarkerExec(trigger, 0))

(***************************************************************************)
(* core.ts: processTriggerPattern.  Every placeholder becomes the cursor   *)
(* marker character; the text between placeholders is escaped on demand;   *)
(* the options are those of the first placeholder.                         *)
(***************************************************************************)
\* Variant: the text between placeholders is escaped for regex triggers too.
AlwaysEscape(chunk, escapeLiterals) == escapeRegex(chunk)

MaybeEscape(chunk, escapeLiterals) == IF escapeLiterals THEN escapeRegex(chunk) ELSE chunk

\* `options.length > 0 ? options : ['instant']`
OrInstant(options) == IF Len(options) > 0 THEN options ELSE <<"instant">>

FirstMarkerOptions(match) ==
    OrInstant(IF match.hasOpts THEN parseCursorMarkerOptions(match.text) ELSE <<"instant">>)

RECURSIVE ProcessFrom(_, _, _, _, _, _)
RECURSIVE ProcessMatch(_, _, _, _, _, _, _)

\* The while loop of processTriggerPattern, from the exec call on.
ProcessFrom(source, escapeLiterals, lastIndex, parts, options, foundCursorMarker) ==
    ProcessMatch(source, escapeLiterals, lastIndex, parts, options, foundCursorMarker,
                 CursorMarkerExec(source, lastIndex))

\* The loop body for one result of exec, and the code after the loop.
ProcessMatch(source, escapeLiterals, lastIndex, parts, options, foundCursorMarker, match) ==
    IF ~match.found
    THEN [pattern |-> parts \o MaybeEscape(SliceFrom(source, lastIndex), escapeLiterals),
          options |-> options,
          foundCursorMarker |-> foundCursorMarker]
    ELSE ProcessFrom(source, escapeLiterals, match.end,
             parts \o MaybeEscape(Slice(source, lastIndex, match.index), escapeLiterals)
                   \o <<CURSOR_MARKER_CHAR>>,
             IF foundCursorMarker THEN options ELSE FirstMarkerOptions(match),
             TRUE)

processTriggerPattern(source, escapeLiterals) ==
    ProcessFrom(source, escapeLiterals, 0, <<>>, <<>>, FALSE)

(***************************************************************************)
(* The host regular-expression engine (new RegExp, RegExp.prototype.exec), *)
(* for the pattern syntax the model's triggers use: literal characters,    *)
(* "\" escapes of punctuation, ".", the anchors "^" and "$", capturing     *)
(* groups, and the quantifiers "*", "+", "?" (greedy, or lazy with a       *)
(* trailing "?") on a single-character atom.  Matching is by backtracking  *)
(* in the engine's priority order, so the match found is the one exec      *)
(* returns.                                                                *)
(***************************************************************************)
QUANTIFIERS == {"*", "+", "?"}

\* new RegExp(source) does not throw: parentheses balance, every quantifier
\* follows an atom, and no "\" ends the pattern.
RECURSIVE SyntaxOk(_, _, _, _, _)
SyntaxOk(p, i, depth, canQuantify, afterQuantifier) ==
    IF i > Len(p) THEN depth = 0
    ELSE IF p[i] = "\\" THEN i < Len(p) /\ SyntaxOk(p, i + 2, depth, TRUE, FALSE)
    ELSE IF p[i] = "(" THEN SyntaxOk(p, i + 1, depth + 1, FALSE, FALSE)
    ELSE IF p[i] = ")" THEN depth > 0 /\ SyntaxOk(p, i + 1, depth - 1, TRUE, FALSE)
    ELSE IF p[i] \in QUANTIFIERS
         THEN IF canQuantify THEN SyntaxOk(p, i + 1, depth, FALSE, TRUE)
              ELSE afterQuantifier /\ p[i] = "?" /\ SyntaxOk(p, i + 1, depth, FALSE, FALSE)
    ELSE IF p[i] \in {"^", "$"} THEN SyntaxOk(p, i + 1, depth, FALSE, FALSE)
    ELSE SyntaxOk(p, i + 1, depth, TRUE, FALSE)

RegExpCompiles(source) == SyntaxOk(source, 1, 0, FALSE, FALSE)

NoCapture == <<-1, -1>>

AtomWidth(p, i) == IF p[i] = "\\" THEN 2 ELSE 1

AtomMatches(p, i, ch) ==
    IF p[i] = "\\" THEN ch = p[i + 1]
    ELSE IF p[i] = "." THEN ch # "\n"
    ELSE ch = p[i]

\* How many characters from offset j on match the atom at p[i], at most limit.
RECURSIVE AtomRun(_, _, _, _, _)
AtomRun(p, i, t, j, limit) ==
    IF limit > 0 /\ j < Len(t) /\ AtomMatches(p, i, t[j + 1])
    THEN 1 + AtomRun(p, i, t, j + 1, limit - 1)
    ELSE 0

LineStart(t, j, multiline) == j = 0 \/ (multiline /\ t[j] = "\n")

LineEnd(t, j, multiline) == j = Len(t) \/ (multiline /\ t[j + 1] = "\n")

\* The quantifier written at p[k], if any: its sign, whether a "?" makes it
\* lazy, and how many characters it takes.
QuantifierAt(p, k) ==
    IF k <= Len(p) /\ p[k] \in QUANTIFIERS
    THEN IF k + 1 <= Len(p) /\ p[k + 1] = "?"
         THEN [sign |-> p[k], lazy |-> TRUE, width |-> 2]
         ELSE [sign |-> p[k], lazy |-> FALSE, width |-> 1]
    ELSE [sign |-> None, lazy |-> FALSE, width |-> 0]

RECURSIVE MatchHere(_, _, _, _, _, _, _)
RECURSIVE MatchAtom(_, _, _, _, _, _, _, _)
RECURSIVE MatchCounts(_, _, _, _, _, _, _, _, _, _)
RECURSIVE TryCounts(_, _, _, _, _, _, _, _, _, _)
RECURSIVE TryNext(_, _, _, _, _, _, _, _, _, _, _)

\* Match p[i..] at offset j of t; caps are the capture spans so far, open the
\* stack of the groups entered and not yet left.
MatchHere(p, i, t, j, caps, open, multiline) ==
    IF i > Len(p) THEN [ok |-> TRUE, end |-> j, caps |-> caps]
    ELSE IF p[i] = "("
         THEN MatchHere(p, i + 1, t, j, Append(caps, NoCapture),
                        <<<<Len(caps) + 1, j>>>> \o open, multiline)
    ELSE IF p[i] = ")"
         THEN MatchHere(p, i + 1, t, j,
                        [caps EXCEPT ![Head(open)[1]] = <<Head(open)[2], j>>],
                        Tail(open), multiline)
    ELSE IF p[i] = "^"
         THEN IF LineStart(t, j, multiline) THEN MatchHere(p, i + 1, t, j, caps, open, multiline)
              ELSE [ok |-> FALSE]
    ELSE IF p[i] = "$"
         THEN IF LineEnd(t, j, multiline) THEN MatchHere(p, i + 1, t, j, caps, open, multiline)
              ELSE [ok |-> FALSE]
    ELSE MatchAtom(p, i, t, j, caps, open, multiline, QuantifierAt(p, i + AtomWidth(p, i)))

\* Match the atom at p[i] under its quantifier q, then the rest.
MatchAtom(p, i, t, j, caps, open, multiline, q) ==
    MatchCounts(p, i + AtomWidth(p, i) + q.width, t, j, caps, open, multiline, q.lazy,
                IF q.sign \in {"*", "?"} THEN 0 ELSE 1,
                AtomRun(p, i, t, j, IF q.sign \in {"*", "+"} THEN Len(t) ELSE 1))

MatchCounts(p, next, t, j, caps, open, multiline, lazy, min, max) ==
    IF max < min THEN [ok |-> FALSE]
    ELSE IF lazy THEN TryCounts(p, next, t, j, caps, open, multiline, min, max, 1)
    ELSE TryCounts(p, next, t, j, caps, open, multiline, max, min, -1)

\* Try the repetition counts from k to last in steps of step: the first that
\* lets the rest of the pattern match wins.
TryCounts(p, next, t, j, caps, open, multiline, k, last, step) ==
    TryNext(p, next, t, j, caps, open, multiline, k, last, step,
            MatchHere(p, next, t, j + k, caps, open, multiline))

TryNext(p, next, t, j, caps, open, multiline, k, last, step, r) ==
    IF r.ok THEN r
    ELSE IF k = last THEN [ok |-> FALSE]
    ELSE TryCounts(p, next, t, j, caps, open, multiline, k + step, last, step)

\* regex.exec(text) with the global flag: the leftmost match at or after
\* lastIndex, with its indices ("d" flag); null when there is none.
RECURSIVE ExecFrom(_, _, _)
RECURSIVE ExecTry(_, _, _, _)
ExecFrom(regex, text, lastIndex) ==
    IF lastIndex > Len(text) THEN [found |-> FALSE]
    ELSE ExecTry(regex, text, lastIndex,
                 MatchHere(regex.source, 1, text, lastIndex, <<>>, <<>>, regex.multiline))

ExecTry(regex, text, lastIndex, r) ==
    IF r.ok
    THEN [found |-> TRUE, index |-> lastIndex, end |-> r.end,
          text |-> Slice(text, lastIndex, r.end), caps |-> r.caps]
    ELSE ExecFrom(regex, text, lastIndex + 1)

(***************************************************************************)
(* core.ts: compileTrigger.                                                *)
(***************************************************************************)
IsExplicitRegex(trigger) == StartsWith(trigger, "/") /\ EndsWith(trigger, "/") /\ Len(trigger) > 2

\* The pattern and options before compilation (the if/else of compileTrigger).
ProcessedFrom(isExplicitRegex, result) ==
    [pattern |-> IF ~isExplicitRegex /\ ~result.foundCursorMarker
                 THEN result.pattern \o <<CURSOR_MARKER_CHAR>>
                 ELSE result.pattern,
     options |-> IF result.foundCursorMarker THEN result.options ELSE <<"instant">>,
     hasCursorMarker |-> result.foundCursorMarker]

ProcessedTrigger(trigger) ==
    IF IsExplicitRegex(trigger)
    THEN ProcessedFrom(TRUE, processTriggerPattern(Slice(trigger, 1, Len(trigger) - 1), FALSE))
    ELSE ProcessedFrom(FALSE, processTriggerPattern(trigger, TRUE))

\* Variant: the catch branch keeps the options parsed before the failure.
FallbackKeepingOptions(trigger) ==
    [regex |-> [source |-> escapeRegex(trigger) \o <<CURSOR_MARKER_CHAR>>, multiline |-> FALSE],
     options |-> ProcessedTrigger(trigger).options,
     hasCursorMarker |-> FALSE,
     isExplicitRegex |-> FALSE,
     allowsFlexibleCursor |-> FALSE,
     threw |-> FALSE]

\* The catch branch: the whole trigger escaped as a literal, marker appended.
FallbackOf(escapedTrigger) ==
    [regex |-> [source |-> escapedTrigger, multiline |-> FALSE],
     options |-> <<"instant">>,
     hasCursorMarker |-> FALSE,
     isExplicitRegex |-> FALSE,
     allowsFlexibleCursor |-> FALSE,
     threw |-> ~RegExpCompiles(escapedTrigger)]

CompileFallback(trigger) == FallbackOf(escapeRegex(trigger) \o <<CURSOR_MARKER_CHAR>>)

\* The try block of compileTrigger and its catch.
CompileProcessed(trigger, processed) ==
    IF RegExpCompiles(processed.pattern)
    THEN [regex |-> [source |-> processed.pattern, multiline |-> TRUE],
          options |-> OrInstant(processed.options),
          hasCursorMarker |-> processed.hasCursorMarker,
          isExplicitRegex |-> IsExplicitRegex(trigger),
          allowsFlexibleCursor |-> FALSE,
          threw |-> FALSE]
    ELSE CompileFallback(trigger)

compileTrigger(trigger) == CompileProcessed(trigger, ProcessedTrigger(trigger))

(***************************************************************************)
(* core.ts: eventTypeAllowed and matchesTrigger.                           *)
(***************************************************************************)
OptionsInclude(options, name) == \E k \in 1..Len(options) : options[k] = name

\* Variant: the event type is not looked at.
AnyEventAllowed(eventType, options) == TRUE

\* Variant: enter does not stand for newline.
eventTypeAllowedOneWay(eventType, options) ==
    \/ Len(options) = 0
    \/ OptionsInclude(options, eventType)
    \/ eventType = "newline" /\ OptionsInclude(options, "enter")

eventTypeAllowed(eventType, options) ==
    \/ Len(options) = 0
    \/ OptionsInclude(options, eventType)
    \/ eventType = "enter" /\ OptionsInclude(options, "newline")
    \/ eventType = "newline" /\ OptionsInclude(options, "enter")

\* Variant: the marker goes to the end of the text, wherever the cursor is.
InsertMarkerAtEnd(input, cursorPos) == input \o <<CURSOR_MARKER_CHAR>>

\* Variant: the marker goes one character before the cursor.
InsertMarkerOneEarlier(input, cursorPos) ==
    LET at == IF cursorPos > 0 THEN cursorPos - 1 ELSE 0
    IN  Slice(input, 0, at) \o <<CURSOR_MARKER_CHAR>> \o SliceFrom(input, at)

InsertCursorMarker(input, cursorPos) ==
    Slice(input, 0, cursorPos) \o <<CURSOR_MARKER_CHAR>> \o SliceFrom(input, cursorPos)

\* The while loop of matchesTrigger: "found" when a match holds the cursor
\* marker, "none" when exec returns null.  An empty match leaves lastIndex
\* where it was, so exec returns it again and again until the wall-clock
\* guard ends the loop: "timeout".
RECURSIVE ScanForCursor(_, _, _)
RECURSIVE ScanMatch(_, _, _)
ScanForCursor(regex, textWithCursor, lastIndex) ==
    ScanMatch(regex, textWithCursor, ExecFrom(regex, textWithCursor, lastIndex))

\* The loop body for one result of exec.
ScanMatch(regex, textWithCursor, match) ==
    IF ~match.found THEN "none"
    ELSE IF Includes(match.text, CURSOR_MARKER_CHAR) THEN "found"
    ELSE IF match.end = match.index THEN "timeout"
    ELSE ScanForCursor(regex, textWithCursor, match.end)

\* The code after the loop.
AfterScan(scan, eventType, options) ==
    IF scan = "timeout" THEN FALSE
    ELSE IF scan # "found" THEN FALSE
    ELSE eventTypeAllowed(eventType, options)

matchesTrigger(compiledTrigger, input, cursorPos, eventType) ==
    AfterScan(ScanForCursor(compiledTrigger.regex, InsertCursorMarker(input, cursorPos), 0),
              eventType, compiledTrigger.options)

(***************************************************************************)
(* snippet-utils: validateAndParseSnippets and createSnippetMap.           *)
(* An optional field of a raw snippet is absent, a string or an array.     *)
(***************************************************************************)
Absent == [kind |-> "absent", value |-> <<>>]

OneString(str) == [kind |-> "string", value |-> <<str>>]

StringArray(strs) == [kind |-> "array", value |-> strs]

\* `if (field) { typeof field === 'string' ? [field] : field }`; the empty
\* string is falsy.
AsStringList(field) ==
    IF field.kind = "absent" THEN <<>>
    ELSE IF field.kind = "string" THEN (IF field.value = <<"">> THEN <<>> ELSE field.value)
    ELSE field.value

\* Variant: the duplicate test sees no trigger.
NeverSeen(triggerSet, trigger) == FALSE

TriggerSeen(triggerSet, trigger) == trigger \in triggerSet

DuplicateEntry(i, snippet) ==
    [id |-> <<"snippet-", i>>, trigger |-> snippet.trigger, replacement |-> <<>>,
     commands |-> <<>>, cursorMarkerOptions |-> <<>>, regex |-> FALSE,
     isValid |-> FALSE, error |-> "Duplicate trigger"]

ValidEntry(i, snippet) ==
    [id |-> <<"snippet-", i>>, trigger |-> snippet.trigger,
     replacement |-> AsStringList(snippet.replacement),
     commands |-> AsStringList(snippet.commands),
     cursorMarkerOptions |-> parseCursorMarkerOptions(snippet.trigger), regex |-> FALSE,
     isValid |-> TRUE, error |-> ""]

\* The for loop of validateAndParseSnippets from index i (0-based) on.
RECURSIVE ValidateFrom(_, _, _, _)
ValidateFrom(snippets, i, triggerSet, parsed) ==
    IF i >= Len(snippets) THEN parsed
    ELSE LET snippet == snippets[i + 1]
         IN  IF TriggerSeen(triggerSet, snippet.trigger)
             THEN ValidateFrom(snippets, i + 1, triggerSet, Append(parsed, DuplicateEntry(i, snippet)))
             ELSE ValidateFrom(snippets, i + 1, triggerSet \cup {snippet.trigger},
                               Append(parsed, ValidEntry(i, snippet)))

validateAndParseSnippets(snippets) == ValidateFrom(snippets, 0, {}, <<>>)

\* The Map of createSnippetMap as a function; an action without an entry
\* maps to the empty list.
EmptySnippetMap == [action \in {"instant", "space", "tab", "enter", "newline", "backspace"} |-> <<>>]

RECURSIVE PushUnder(_, _, _)
PushUnder(map, options, snippet) ==
    IF options = <<>> THEN map
    ELSE PushUnder([map EXCEPT ![Head(options)] = Append(@, snippet)], Tail(options), snippet)

RECURSIVE MapFrom(_, _, _)
MapFrom(parsed, k, map) ==
    IF k > Len(parsed) THEN map
    ELSE IF ~parsed[k].isValid THEN MapFrom(parsed, k + 1, map)
    ELSE LET options == IF Len(parsed[k].cursorMarkerOptions) > 0
                        THEN parsed[k].cursorMarkerOptions ELSE <<"instant">>
         IN  MapFrom(parsed, k + 1, PushUnder(map, options, parsed[k]))

\* Variant: the isValid flag of a snippet is not looked at.
createSnippetMapOfAll(parsed) ==
    MapFrom([k \in 1..Len(parsed) |-> [parsed[k] EXCEPT !.isValid = TRUE]], 1, EmptySnippetMap)

createSnippetMap(parsed) == MapFrom(parsed, 1, EmptySnippetMap)

(***************************************************************************)
(* JSON.stringify / JSON.parse of a snippet array: an absent field is not  *)
(* written, and reads back as absent.                                      *)
(***************************************************************************)
StringifySnippet(snippet) ==
    <<[key |-> "trigger", value |-> OneString(snippet.trigger)]>>
    \o (IF snippet.replacement.kind = "absent" THEN <<>>
        ELSE <<[key |-> "replacement", value |-> snippet.replacement]>>)
    \o (IF snippet.commands.kind = "absent" THEN <<>>
        ELSE <<[key |-> "commands", value |-> snippet.commands]>>)

JSONStringify(snippets) == <<"[">> \o [k \in 1..Len(snippets) |-> StringifySnippet(snippets[k])] \o <<"]">>

FieldOf(object, key) ==
    IF \E k \in 1..Len(object) : object[k].key = key
    THEN object[CHOOSE k \in 1..Len(object) : object[k].key = key].value
    ELSE Absent

ParseSnippet(object) ==
    [trigger |-> FieldOf(object, "trigger").value[1],
     replacement |-> FieldOf(object, "replacement"),
     commands |-> FieldOf(object, "commands")]

JSONParse(text) == [k \in 1..(Len(text) - 2) |-> ParseSnippet(text[k + 1])]

(***************************************************************************)
(* SnippetService.                                                         *)
(***************************************************************************)
NoError == [isNull |-> TRUE, messages |-> <<>>]

ServiceInit ==
    /\ loadedFrom = <<>>
    /\ parsedSnippets = <<>>
    /\ snippetMap = EmptySnippetMap
    /\ snippetsValid = TRUE
    /\ compiledTriggers = {}
    /\ lastValidationError = NoError
    /\ lastValidSnippets = <<>>

InvalidOnes(parsed) == SelectSeq(parsed, LAMBDA sn : ~sn.isValid)

AllValid(parsed) == \A k \in 1..Len(parsed) : parsed[k].isValid

ErrorsOf(invalidSnippets) ==
    [isNull |-> FALSE,
     messages |-> [k \in 1..Len(invalidSnippets) |-> invalidSnippets[k].error]]

\* The body of loadSnippetsFromRaw once validateAndParseSnippets has returned.
LoadParsed(snippets, parsed, valid, invalidCount) ==
    /\ loadedFrom' = snippets
    /\ parsedSnippets' = parsed
    /\ snippetMap' = createSnippetMap(parsed)
    /\ snippetsValid' = valid
    /\ compiledTriggers' = {}
    /\ IF valid /\ Len(parsed) > 0
       THEN /\ lastValidSnippets' = JSONStringify(snippets)
            /\ lastValidationError' = NoError
       ELSE IF invalidCount > 0
       THEN /\ lastValidationError' = ErrorsOf(InvalidOnes(parsed))
            /\ UNCHANGED lastValidSnippets
       ELSE UNCHANGED <<lastValidationError, lastValidSnippets>>

LoadValidated(snippets, parsed) ==
    LoadParsed(snippets, parsed, AllValid(parsed), Len(InvalidOnes(parsed)))

\* Variant: a load that is not fully valid, or is empty, forgets the last
\* valid configuration.
loadSnippetsFromRawForgetting(snippets) ==
    LET parsed == validateAndParseSnippets(snippets)
    IN  /\ loadedFrom' = snippets
        /\ parsedSnippets' = parsed
        /\ snippetMap' = createSnippetMap(parsed)
        /\ snippetsValid' = AllValid(parsed)
        /\ compiledTriggers' = {}
        /\ IF AllValid(parsed) /\ Len(parsed) > 0
           THEN /\ lastValidSnippets' = JSONStringify(snippets)
                /\ lastValidationError' = NoError
           ELSE /\ lastValidSnippets' = <<>>
                /\ lastValidationError' =
                       IF Len(InvalidOnes(parsed)) > 0 THEN ErrorsOf(InvalidOnes(parsed))
                       ELSE lastValidationError

loadSnippetsFromRaw(snippets) == LoadValidated(snippets, validateAndParseSnippets(snippets))

resetToLastValidSnippets ==
    IF lastValidSnippets = <<>>
    THEN UNCHANGED serviceVars
    ELSE loadSnippetsFromRaw(JSONParse(lastValidSnippets))

CacheKey(trigger) == <<"trigger:">> \o trigger

getCompiledTrigger(trigger) ==
    /\ compiledTriggers' =
           IF \E entry \in compiledTriggers : entry.key = CacheKey(trigger)
           THEN compiledTriggers
           ELSE compiledTriggers \cup {[key |-> CacheKey(trigger), value |-> compileTrigger(trigger)]}
    /\ UNCHANGED <<loadedFrom, parsedSnippets, snippetMap, snippetsValid,
                   lastValidationError, lastValidSnippets>>

(***************************************************************************)
(* parseJsoncSnippets, and the SnippetService revision that main.ts calls: *)
(* loadSnippets(settings) reads the JSONC text of the settings.  A JSONC   *)
(* text is modelled by what JSON5.parse makes of it: the empty string, a   *)
(* text that does not parse, a value that is not an array, or an array of  *)
(* snippet candidates; a candidate with an empty trigger stands for the    *)
(* candidates that fail the field checks.                                  *)
(***************************************************************************)
EmptyJsonc == [kind |-> "empty", items |-> <<>>]

MalformedJsonc == [kind |-> "malformed", items |-> <<>>]

ObjectJsonc == [kind |-> "object", items |-> <<>>]

ArrayJsonc(items) == [kind |-> "array", items |-> items]

ParseFailure(message) == [isNull |-> FALSE, messages |-> <<message>>]

\* The for loop of parseJsoncSnippets from index i (0-based) on.
RECURSIVE ParseCandidates(_, _, _)
ParseCandidates(items, i, snippets) ==
    IF i >= Len(items) THEN [snippets |-> snippets, error |-> NoError]
    ELSE IF items[i + 1].trigger = <<>>
    THEN [snippets |-> <<>>,
          error |-> ParseFailure("trigger field is required and must be a string")]
    ELSE ParseCandidates(items, i + 1, Append(snippets, items[i + 1]))

parseJsoncSnippets(jsoncString) ==
    IF jsoncString.kind = "empty" THEN [snippets |-> <<>>, error |-> NoError]
    ELSE IF jsoncString.kind = "malformed"
    THEN [snippets |-> <<>>, error |-> ParseFailure("Invalid JSONC")]
    ELSE IF jsoncString.kind # "array"
    THEN [snippets |-> <<>>, error |-> ParseFailure("Snippets must be an array")]
    ELSE ParseCandidates(jsoncString.items, 0, <<>>)

\* The `if (parseError)` branch of loadSnippets.
LoadFailed(parseError) ==
    /\ snippetsValid' = FALSE
    /\ lastValidationError' = parseError
    /\ UNCHANGED <<loadedFrom, parsedSnippets, snippetMap, compiledTriggers, lastValidSnippets>>

\* LoadJsonc with the cache of compiled triggers left as it is.
LoadJsoncKeepingCache(jsonc, snippets, parsed, valid, invalidCount) ==
    /\ loadedFrom' = snippets
    /\ parsedSnippets' = parsed
    /\ snippetMap' = createSnippetMap(parsed)
    /\ snippetsValid' = valid
    /\ compiledTriggers' = compiledTriggers
    /\ IF valid /\ Len(parsed) > 0
       THEN /\ lastValidSnippets' = jsonc
            /\ lastValidationError' = NoError
       ELSE IF invalidCount > 0
       THEN /\ lastValidationError' = ErrorsOf(InvalidOnes(parsed))
            /\ UNCHANGED lastValidSnippets
       ELSE UNCHANGED <<lastValidationError, lastValidSnippets>>

\* The rest of loadSnippets, once validateAndParseSnippets has returned.
LoadJsonc(jsonc, snippets, parsed, valid, invalidCount) ==
    /\ loadedFrom' = snippets
    /\ parsedSnippets' = parsed
    /\ snippetMap' = createSnippetMap(parsed)
    /\ snippetsValid' = valid
    /\ compiledTriggers' = {}
    /\ IF valid /\ Len(parsed) > 0
       THEN /\ lastValidSnippets' = jsonc
            /\ lastValidationError' = NoError
       ELSE IF invalidCount > 0
       THEN /\ lastValidationError' = ErrorsOf(InvalidOnes(parsed))
            /\ UNCHANGED lastValidSnippets
       ELSE UNCHANGED <<lastValidationError, lastValidSnippets>>

LoadParsedJsonc(jsonc, snippets, parsed) ==
    LoadJsonc(jsonc, snippets, parsed, AllValid(parsed), Len(InvalidOnes(parsed)))

AfterParse(jsonc, result) ==
    IF ~result.error.isNull THEN LoadFailed(result.error)
    ELSE LoadParsedJsonc(jsonc, result.snippets, validateAndParseSnippets(result.snippets))

loadSnippets(jsonc) == AfterParse(jsonc, parseJsoncSnippets(jsonc))

(***************************************************************************)
(* The inputs of the matching probe.                                       *)
(***************************************************************************)
EventTypes == {"instant", "space", "tab", "enter", "newline", "backspace"}

TextAlphabet == {"a", "b"}

Placeholder(opts) == <<"$", "{", "0", ":">> \o opts \o <<"}">>

Regex(inner) == <<"/">> \o inner \o <<"/">>

\* Literal triggers without a placeholder.
PlainTriggers ==
    (StrsUpTo(TextAlphabet, MaxLiteralLen) \ {<<>>})
    \cup {<<"a", ".">>, <<".">>, <<"a", "*">>, <<"(", "a">>, <<"/", "a">>, <<"/", "/">>, <<"a", "\\">>}

\* Literal triggers with a placeholder.
MarkedTriggers ==
    { <<"a", "b">> \o Placeholder(Spell("space") \o <<",">> \o Spell("tab")),
      <<"a", "a">> \o Placeholder(Spell("instant")),
      <<"a", "b">> \o Placeholder(Spell("newline") \o <<",">> \o Spell("instant")),
      <<"b">> \o Placeholder(Spell("enter")),
      <<"a">> \o Placeholder(Spell("backspace")),
      <<"a">> \o Placeholder(<<"f", "o", "o">>),
      <<"a">> \o Placeholder(<<" ">> \o Spell("space") \o <<" ", ",", "x">>),
      <<"a", "b", "$", "0">>,
      <<"a", "$", "{", "0", "}">>,
      <<"a", "$", "{", "0", ":", "}">>,
      <<"a", "$", "0", "b">>,
      Placeholder(Spell("tab")) \o <<"a", "b">>,
      <<"a">> \o Placeholder(Spell("space")) \o <<"b">> \o Placeholder(Spell("tab")),
      <<".">> \o Placeholder(Spell("instant")) }

\* Explicit regex triggers, /.../ .
RegexTriggers ==
    { Regex(Placeholder(Spell("instant")) \o <<"(", "a", "b", ")">>),
      Regex(<<"(", "a", "b", ")">> \o Placeholder(Spell("instant"))),
      Regex(<<"a">> \o Placeholder(Spell("space")) \o <<"b">>),
      Regex(<<"(", "a", ")", "$", "0", "(", "b", ")">>),
      Regex(<<"a", "b">>),
      Regex(<<"a", ".">>),
      Regex(<<"a", "*">>),
      Regex(<<"a", "+">> \o Placeholder(Spell("tab"))),
      Regex(<<"a", "*", "?">> \o Placeholder(Spell("enter")) \o <<"b">>),
      Regex(<<"^", "a">> \o Placeholder(Spell("instant"))),
      Regex(<<"a", "\\", ".">> \o Placeholder(Spell("instant"))),
      Regex(<<"$", "0", "*">>) }

\* /.../ triggers whose pattern the engine rejects.
BrokenTriggers ==
    { Regex(<<"(">>),
      Regex(<<"(", "a">> \o Placeholder(Spell("space"))),
      Regex(<<"a", ")">>),
      Regex(<<"*", "a">>),
      Regex(<<"a", "+", "*">> \o Placeholder(Spell("tab"))),
      Regex(<<"a", "\\">>) }

Triggers == PlainTriggers \cup MarkedTriggers \cup RegexTriggers \cup BrokenTriggers

Texts ==
    StrsUpTo(TextAlphabet, MaxTextLen)
    \cup {<<"a", ".">>, <<".">>, <<"b", "a", "*">>, <<"(", "a">>, <<"a", ":", "}">>,
          <<"/", "(", "/">>, <<"/", "a", ")", "/">>, <<"/", "*", "a", "/">>, <<"a", "\n", "a">>}

(***************************************************************************)
(* The matching probe: compileTrigger, then matchesTrigger for every event *)
(* type, on one (trigger, text, cursor offset).                            *)
(***************************************************************************)
\* The editor, the event loop and the executor at rest.
NoPending == [isNull |-> TRUE, beforeText |-> <<>>, beforeCharIndex |-> 0, data |-> <<>>,
              inputType |-> None]

NoKeystroke == [key |-> None, inputType |-> None, data |-> <<>>]

EditorOff ==
    /\ docText = <<>>
    /\ docCursor = 0
    /\ selected = FALSE
    /\ phase = "idle"
    /\ evt = NoKeystroke
    /\ timers = <<>>
    /\ userActions = 0
    /\ pendingInstantInput = NoPending
    /\ lastKeyboardInstantTimestamp = "null"
    /\ executing = FALSE
    /\ calls = {}
    /\ started = 0
    /\ lastCall = None
    /\ lastOutcome = None
    /\ commandLog = <<>>

\* The commandDelay a CommandExecutionService is constructed with.
DEFAULT_COMMAND_DELAY == 100

MainOff ==
    /\ EditorOff
    /\ settingsJsonc = None
    /\ savedJsonc = None
    /\ listenerValid = TRUE
    /\ mainPc = "idle"
    /\ loads = 0
    /\ lastLoadFailed = FALSE
    /\ commandDelay = DEFAULT_COMMAND_DELAY
    /\ listeners = {1}
    /\ unregisterExpansionListener = 1

ProbeInit ==
    /\ mIn \in {[trigger |-> tr, text |-> tx, cursorPos |-> c] :
                    tr \in Triggers, tx \in Texts, c \in 0..MaxTextLen}
    /\ mIn.cursorPos <= Len(mIn.text)
    /\ mPc = "input"
    /\ mCompiled = None
    /\ mResult = None
    /\ ServiceInit
    /\ MainOff

Compile ==
    /\ mPc = "input"
    /\ mCompiled' = compileTrigger(mIn.trigger)
    /\ mPc' = "compiled"
    /\ UNCHANGED <<mIn, mResult>>
    /\ UNCHANGED <<serviceVars, mainVars>>

Match ==
    /\ mPc = "compiled"
    /\ mResult' = [eventType \in EventTypes |->
                      matchesTrigger(mCompiled, mIn.text, mIn.cursorPos, eventType)]
    /\ mPc' = "matched"
    /\ UNCHANGED <<mIn, mCompiled>>
    /\ UNCHANGED <<serviceVars, mainVars>>

ProbeNext == Compile \/ Match

SpecMatch == ProbeInit /\ [][ProbeNext]_vars

(***************************************************************************)
(* Properties of compileTrigger and matchesTrigger.                        *)
(***************************************************************************)
\* lit occurs in text at offsets [s, s + |lit|).
OccursAt(text, lit, s) ==
    s >= 0 /\ s + Len(lit) <= Len(text) /\ Slice(text, s, s + Len(lit)) = lit

Compiled == mPc \in {"compiled", "matched"}

Matched == mPc = "matched"

\* C3: for a literal trigger t without a placeholder, matchesTrigger under
\* 'instant' is true exactly when the |t| characters before the cursor are t.
C3_LiteralBeforeCursor ==
    (Matched /\ mIn.trigger \in PlainTriggers)
        => (mResult["instant"]
              <=> OccursAt(mIn.text, mIn.trigger, mIn.cursorPos - Len(mIn.trigger)))

\* C3 witness: the self-overlapping trigger "aa" accepted at the end of "aaa".
C3_Witness ==
    /\ Matched
    /\ mIn.trigger = <<"a", "a">>
    /\ mIn.text = <<"a", "a", "a">>
    /\ mIn.cursorPos = 3
    /\ mResult["instant"]

\* Literal triggers ending with a placeholder: their literal part and the
\* event types their placeholder lists.
EndMarked ==
    { [trigger |-> <<"a", "b">> \o Placeholder(Spell("space") \o <<",">> \o Spell("tab")),
       literal |-> <<"a", "b">>, kinds |-> {"space", "tab"}],
      [trigger |-> <<"a", "a">> \o Placeholder(Spell("instant")),
       literal |-> <<"a", "a">>, kinds |-> {"instant"}],
      [trigger |-> <<"a", "b">> \o Placeholder(Spell("newline") \o <<",">> \o Spell("instant")),
       literal |-> <<"a", "b">>, kinds |-> {"newline", "instant"}],
      [trigger |-> <<"b">> \o Placeholder(Spell("enter")),
       literal |-> <<"b">>, kinds |-> {"enter"}],
      [trigger |-> <<"a">> \o Placeholder(Spell("backspace")),
       literal |-> <<"a">>, kinds |-> {"backspace"}],
      [trigger |-> <<".">> \o Placeholder(Spell("instant")),
       literal |-> <<".">>, kinds |-> {"instant"}] }

EndsAtCursor(lit) == OccursAt(mIn.text, lit, mIn.cursorPos - Len(lit))

StrictlyInside(lit) ==
    \E s \in 0..Len(mIn.text) :
        OccursAt(mIn.text, lit, s) /\ s < mIn.cursorPos /\ mIn.cursorPos < s + Len(lit)

\* C4 as stated: accepted right after an occurrence for a listed event type,
\* rejected at every offset strictly inside an occurrence.
C4_AsStated ==
    \A e \in EndMarked :
        (Matched /\ mIn.trigger = e.trigger)
            => /\ EndsAtCursor(e.literal) => \A k \in e.kinds : mResult[k]
               /\ StrictlyInside(e.literal) => \A k \in EventTypes : ~mResult[k]

\* C4: accepted right after an occurrence for a listed event type; rejected
\* at every offset strictly inside an occurrence at which no occurrence ends.
C4_EndOfOccurrence ==
    \A e \in EndMarked :
        (Matched /\ mIn.trigger = e.trigger)
            => /\ EndsAtCursor(e.literal) => \A k \in e.kinds : mResult[k]
               /\ (StrictlyInside(e.literal) /\ ~EndsAtCursor(e.literal))
                      => \A k \in EventTypes : ~mResult[k]

\* C4 witness: "ab${0:space,tab}" with the cursor between a and b: rejected.
C4_Witness ==
    /\ Matched
    /\ mIn.trigger = <<"a", "b">> \o Placeholder(Spell("space") \o <<",">> \o Spell("tab"))
    /\ mIn.text = <<"b", "a", "b">>
    /\ mIn.cursorPos = 2
    /\ \A k \in EventTypes : ~mResult[k]

\* The regex trigger /${0:instant}(ab)/ .
LeadingPlaceholderRegex == Regex(Placeholder(Spell("instant")) \o <<"(", "a", "b", ")">>)

\* C5 as stated: /${0:instant}(ab)/ is accepted for any cursor strictly
\* inside the matched "ab".
C5_AsStated ==
    (Matched /\ mIn.trigger = LeadingPlaceholderRegex /\ StrictlyInside(<<"a", "b">>))
        => mResult["instant"]

\* C5: /${0:instant}(ab)/ is not compiled as cursor-flexible, and a cursor
\* strictly inside the matched "ab" is rejected for every event type.
C5_InsideRejected ==
    (Matched /\ mIn.trigger = LeadingPlaceholderRegex)
        => /\ ~mCompiled.allowsFlexibleCursor
           /\ StrictlyInside(<<"a", "b">>) => \A k \in EventTypes : ~mResult[k]

\* C5 witness: cursor between a and b of "xabx"-like text "babb".
C5_Witness ==
    /\ Matched
    /\ mIn.trigger = LeadingPlaceholderRegex
    /\ mIn.text = <<"b", "a", "b", "b">>
    /\ mIn.cursorPos = 2
    /\ ~mResult["instant"]

\* C6: an explicit regex with the placeholder at its start is accepted
\* exactly when the matched text starts at the cursor.
C6_ExactPosition ==
    (Matched /\ mIn.trigger = LeadingPlaceholderRegex)
        => \A k \in EventTypes :
              mResult[k] <=> (k = "instant" /\ OccursAt(mIn.text, <<"a", "b">>, mIn.cursorPos))

\* C6 witness: the cursor right before "ab" in "babb": accepted.
C6_Witness ==
    /\ Matched
    /\ mIn.trigger = LeadingPlaceholderRegex
    /\ mIn.text = <<"b", "a", "b", "b">>
    /\ mIn.cursorPos = 1
    /\ mResult["instant"]

\* C7: matchesTrigger is true only for an event type in the trigger's
\* activation options, enter and newline standing for one another.
C7_EventTypeGate ==
    Matched =>
        \A k \in EventTypes :
            mResult[k] => \/ OptionsInclude(mCompiled.options, k)
                          \/ k = "enter" /\ OptionsInclude(mCompiled.options, "newline")
                          \/ k = "newline" /\ OptionsInclude(mCompiled.options, "enter")

\* C7 witness: "b${0:enter}" right after "b": newline accepted, instant not.
C7_Witness ==
    /\ Matched
    /\ mIn.trigger = <<"b">> \o Placeholder(Spell("enter"))
    /\ mIn.text = <<"a", "b">>
    /\ mIn.cursorPos = 2
    /\ mResult["newline"]
    /\ mResult["enter"]
    /\ ~mResult["instant"]

\* C8: compileTrigger never throws; a /.../ trigger whose pattern is invalid
\* compiles to the escaped whole trigger with the cursor marker appended,
\* options exactly <<instant>>, isExplicitRegex and allowsFlexibleCursor false.
C8_FallbackLiteral ==
    Compiled =>
        /\ ~mCompiled.threw
        /\ mIn.trigger \in BrokenTriggers =>
               /\ mCompiled.regex.source = escapeRegex(mIn.trigger) \o <<CURSOR_MARKER_CHAR>>
               /\ mCompiled.options = <<"instant">>
               /\ ~mCompiled.isExplicitRegex
               /\ ~mCompiled.allowsFlexibleCursor

\* C8 witness: /(a${0:space}/ compiled to the fallback.
C8_Witness ==
    /\ mPc = "compiled"
    /\ mIn.trigger = Regex(<<"(", "a">> \o Placeholder(Spell("space")))
    /\ mCompiled.options = <<"instant">>
    /\ ~mCompiled.isExplicitRegex

\* Triggers with no placeholder, a placeholder without options, or a
\* placeholder with only unrecognised options.
OptionlessTriggers ==
    PlainTriggers
    \cup { <<"a">> \o Placeholder(<<"f", "o", "o">>),
           <<"a", "b", "$", "0">>,
           <<"a", "$", "{", "0", "}">>,
           <<"a", "$", "{", "0", ":", "}">>,
           <<"a", "$", "0", "b">>,
           Regex(<<"a", "b">>),
           Regex(<<"a", ".">>),
           Regex(<<"(", "a", ")", "$", "0", "(", "b", ")">>) }

\* C9: the activation options of a compiled trigger are non-empty and drawn
\* from the six recognised names; unrecognised names are dropped; a trigger
\* without usable options gets exactly <<instant>>.
C9_ActivationOptions ==
    Compiled =>
        /\ Len(mCompiled.options) > 0
        /\ \A k \in 1..Len(mCompiled.options) : mCompiled.options[k] \in EventTypes
        /\ mIn.trigger \in OptionlessTriggers => mCompiled.options = <<"instant">>
        /\ mIn.trigger = <<"a">> \o Placeholder(<<" ">> \o Spell("space") \o <<" ", ",", "x">>)
               => mCompiled.options = <<"space">>

\* C9 witness: "a${0:foo}" compiled with options <<instant>>.
C9_Witness ==
    /\ mPc = "compiled"
    /\ mIn.trigger = <<"a">> \o Placeholder(<<"f", "o", "o">>)
    /\ mCompiled.options = <<"instant">>

(***************************************************************************)
(* The snippet service under configuration changes: lists of at most       *)
(* MaxSnippets raw snippets are loaded, the last valid one is restored,    *)
(* compiled triggers are asked for.                                        *)
(***************************************************************************)
SpaceTabTrigger == <<"a">> \o Placeholder(Spell("space") \o <<",">> \o Spell("tab"))

SnippetPool ==
    { [trigger |-> SpaceTabTrigger, replacement |-> OneString("x"), commands |-> Absent],
      [trigger |-> SpaceTabTrigger, replacement |-> StringArray(<<"y", "z">>), commands |-> Absent],
      [trigger |-> <<"b">>, replacement |-> OneString(""), commands |-> OneString("cmd")] }

SnippetLists == UNION {[1..n -> SnippetPool] : n \in 0..MaxSnippets}

ProbeOff ==
    /\ mIn = None
    /\ mPc = "off"
    /\ mCompiled = None
    /\ mResult = None

SnippetsInit == ProbeOff /\ ServiceInit /\ MainOff

LoadSnippets ==
    /\ \E snippets \in SnippetLists : loadSnippetsFromRaw(snippets)
    /\ UNCHANGED <<probeVars, mainVars>>

ResetSnippets ==
    /\ resetToLastValidSnippets
    /\ UNCHANGED <<probeVars, mainVars>>

GetCompiledTrigger ==
    /\ \E k \in 1..Len(parsedSnippets) : getCompiledTrigger(parsedSnippets[k].trigger)
    /\ UNCHANGED <<probeVars, mainVars>>

SnippetsNext == LoadSnippets \/ ResetSnippets \/ GetCompiledTrigger

SpecSnippets == SnippetsInit /\ [][SnippetsNext]_vars

(***************************************************************************)
(* Properties of snippet validation.                                       *)
(***************************************************************************)
IsDuplicate(i) == \E j \in 1..(i - 1) : loadedFrom[j].trigger = loadedFrom[i].trigger

Indexed(snippet, action) ==
    \E k \in 1..Len(snippetMap[action]) : snippetMap[action][k] = snippet

\* C10: of the snippets sharing a trigger, every one after the first is
\* invalid with error 'Duplicate trigger' (and is in no index list); the
\* first stays valid and indexed; the others are loaded as written.
C10_DuplicateTriggers ==
    /\ Len(parsedSnippets) = Len(loadedFrom)
    /\ \A i \in 1..Len(parsedSnippets) :
          /\ parsedSnippets[i].trigger = loadedFrom[i].trigger
          /\ IsDuplicate(i) =>
                /\ ~parsedSnippets[i].isValid
                /\ parsedSnippets[i].error = "Duplicate trigger"
                /\ \A action \in EventTypes : ~Indexed(parsedSnippets[i], action)
          /\ ~IsDuplicate(i) =>
                /\ parsedSnippets[i].isValid
                /\ parsedSnippets[i].replacement = AsStringList(loadedFrom[i].replacement)
                /\ parsedSnippets[i].commands = AsStringList(loadedFrom[i].commands)
                /\ \E action \in EventTypes : Indexed(parsedSnippets[i], action)

\* C10 witness: three snippets, the trigger of the first repeated twice.
C10_Witness ==
    /\ Len(parsedSnippets) = 3
    /\ loadedFrom[2].trigger = loadedFrom[1].trigger
    /\ loadedFrom[3].trigger = loadedFrom[1].trigger
    /\ parsedSnippets[1].isValid
    /\ Indexed(parsedSnippets[1], "space")
    /\ parsedSnippets[2].error = "Duplicate trigger"
    /\ parsedSnippets[3].error = "Duplicate trigger"

(***************************************************************************)
(* utils/editor-position.ts, utils/grapheme.ts and trigger-context.ts.     *)
(* A key is a string: a one-character string for a printable key, a name   *)
(* such as "Tab" otherwise.  Texts are over ASCII, where NFC leaves a      *)
(* string as it is and every character is one grapheme.                    *)
(***************************************************************************)
\* lines[lineIndex] ?? '' of a split text, lineIndex 0-based.
LineAt(lines, lineIndex) == IF lineIndex < Len(lines) THEN lines[lineIndex + 1] ELSE <<>>

RECURSIVE CharIndexOfLine(_, _, _, _)
CharIndexOfLine(lines, lineIndex, line, charIndex) ==
    IF lineIndex >= line THEN charIndex
    ELSE CharIndexOfLine(lines, lineIndex + 1, line,
                         charIndex + Len(LineAt(lines, lineIndex))
                                   + (IF lineIndex < Len(lines) - 1 THEN 1 ELSE 0))

getCursorCharIndex(text, cursor) ==
    CharIndexOfLine(SplitOn(text, "\n"), 0, cursor.line, 0) + cursor.ch

RECURSIVE EditorPosFrom(_, _, _, _)
EditorPosFrom(lines, line, currentIndex, charIndex) ==
    IF line >= Len(lines)
    THEN [line |-> IF Len(lines) > 0 THEN Len(lines) - 1 ELSE 0,
          ch |-> Len(LineAt(lines, Len(lines) - 1))]
    ELSE LET lineEnd == currentIndex + Len(LineAt(lines, line))
                                     + (IF line < Len(lines) - 1 THEN 1 ELSE 0)
         IN  IF lineEnd > charIndex THEN [line |-> line, ch |-> charIndex - currentIndex]
             ELSE EditorPosFrom(lines, line + 1, lineEnd, charIndex)

charIndexToEditorPos(text, charIndex) == EditorPosFrom(SplitOn(text, "\n"), 0, 0, charIndex)

\* Editor.getCursor(): the line is the number of line breaks before the
\* cursor, ch the distance from the start of that line.
EditorGetCursor(text, offset) ==
    LET before == Slice(text, 0, offset)
        lines == SplitOn(before, "\n")
    IN  [line |-> Len(lines) - 1, ch |-> Len(lines[Len(lines)])]

\* Editor.posToOffset as used by getRange, replaceRange and setCursor: a
\* position past the end of its line or of the text is clamped.
EditorPosToOffset(text, pos) ==
    LET lines == SplitOn(text, "\n")
        line == IF pos.line >= Len(lines) THEN Len(lines) - 1 ELSE pos.line
        ch == IF pos.line >= Len(lines) \/ pos.ch > Len(LineAt(lines, line))
              THEN Len(LineAt(lines, line)) ELSE pos.ch
    IN  CharIndexOfLine(lines, 0, line, 0) + ch

getLastNormalizedGrapheme(text) == IF text = <<>> THEN None ELSE text[Len(text)]

getGraphemeBeforeIndex(text, cursorIndex) ==
    IF text = <<>> \/ cursorIndex <= 0 THEN None
    ELSE getLastNormalizedGrapheme(Slice(text, 0, cursorIndex))

NAMED_KEYS ==
    {"Tab", "Enter", "Backspace", "Shift", "Control", "Alt", "Meta", "CapsLock", "Escape",
     "ArrowUp", "ArrowDown", "ArrowLeft", "ArrowRight", "Unidentified", "Process", "Dead"}

\* key.length === 1
IsOneCharacter(key) == key \notin NAMED_KEYS /\ key # None

\* isSingleGrapheme of a key.
isSingleGrapheme(key) == IsOneCharacter(key)

UNRELIABLE_KEYS == {"Unidentified", "Process", "Dead"}

isUnreliableInstantKey(key) == key \in UNRELIABLE_KEYS

normalizeSingleGrapheme(value) ==
    IF IsOneCharacter(value) THEN getLastNormalizedGrapheme(<<value>>) ELSE value

normalizeTriggerKey(eventKey, insertedText, fallbackFromCursor) ==
    IF ~isUnreliableInstantKey(eventKey) THEN normalizeSingleGrapheme(eventKey)
    ELSE IF getLastNormalizedGrapheme(insertedText) # None
         THEN getLastNormalizedGrapheme(insertedText)
    ELSE IF fallbackFromCursor # None THEN fallbackFromCursor
    ELSE normalizeSingleGrapheme(eventKey)

extractInsertedText(afterText, beforeIndex, afterIndex) ==
    IF afterIndex <= beforeIndex THEN <<>>
    ELSE Slice(afterText,
               IF afterIndex - (afterIndex - beforeIndex) < 0 THEN 0
               ELSE afterIndex - (afterIndex - beforeIndex),
               afterIndex)

getTriggerActionFromKey(key) ==
    CASE key = " " -> "space"
      [] key = "Tab" -> "tab"
      [] key = "Enter" -> "enter"
      [] key = "Backspace" -> "backspace"
      [] OTHER -> IF isSingleGrapheme(key) THEN "instant" ELSE None

(***************************************************************************)
(* snippet-trigger-helpers: collectRelevantSnippets and                    *)
(* shouldEvaluateInstantTrigger.                                           *)
(***************************************************************************)
PartnerActions(triggerAction) ==
    IF triggerAction = "enter" THEN <<"enter", "newline">>
    ELSE IF triggerAction = "newline" THEN <<"newline", "enter">>
    ELSE <<triggerAction>>

\* `if (!snippets.includes(snippet)) snippets.push(snippet)` over candidates.
RECURSIVE PushNew(_, _)
PushNew(snippets, candidates) ==
    IF candidates = <<>> THEN snippets
    ELSE IF \E k \in 1..Len(snippets) : snippets[k] = Head(candidates)
         THEN PushNew(snippets, Tail(candidates))
    ELSE PushNew(Append(snippets, Head(candidates)), Tail(candidates))

RECURSIVE CollectFor(_, _, _)
CollectFor(actions, map, snippets) ==
    IF actions = <<>> THEN snippets
    ELSE CollectFor(Tail(actions), map, PushNew(snippets, map[Head(actions)]))

collectRelevantSnippets(triggerAction, map) ==
    CollectFor(PartnerActions(triggerAction), map, <<>>)

\* The offsets i at which /\$\{[^}]+\}$/ matches: "${", one or more
\* characters other than "}", and "}" as the last character.
TrailingMarkerStarts(trigger) ==
    { i \in 0..(Len(trigger) - 4) :
        /\ trigger[i + 1] = "$"
        /\ trigger[i + 2] = "{"
        /\ trigger[Len(trigger)] = "}"
        /\ \A k \in (i + 3)..(Len(trigger) - 1) : trigger[k] # "}" }

\* snippet.trigger.replace(/\$\{[^}]+\}$/, '')
TriggerWithoutMarker(trigger) ==
    IF TrailingMarkerStarts(trigger) = {} THEN trigger
    ELSE Slice(trigger, 0, CHOOSE i \in TrailingMarkerStarts(trigger) :
                               \A j \in TrailingMarkerStarts(trigger) : i <= j)

\* typedFromKey ?? typedFromInserted ?? typedFromCursor
TypedCharCandidate(context) ==
    IF IsOneCharacter(context.triggerKey) THEN getLastNormalizedGrapheme(<<context.triggerKey>>)
    ELSE IF getLastNormalizedGrapheme(context.insertedText) # None
         THEN getLastNormalizedGrapheme(context.insertedText)
    ELSE getGraphemeBeforeIndex(context.afterText, context.cursorCharIndex)

ExpectedCharMatches(expectedChar, typedCharCandidate) ==
    \/ expectedChar = None
    \/ typedCharCandidate = None
    \/ typedCharCandidate = expectedChar

shouldEvaluateInstantTrigger(snippet, context, triggerAction) ==
    \/ triggerAction # "instant"
    \/ ExpectedCharMatches(getLastNormalizedGrapheme(TriggerWithoutMarker(snippet.trigger)),
                           TypedCharCandidate(context))

(***************************************************************************)
(* The compiled-trigger cache of SnippetService as a value, for handlers   *)
(* that look several triggers up in one run.                               *)
(***************************************************************************)
CacheHas(cache, trigger) == \E entry \in cache : entry.key = CacheKey(trigger)

CacheGet(cache, trigger) ==
    IF CacheHas(cache, trigger)
    THEN (CHOOSE entry \in cache : entry.key = CacheKey(trigger)).value
    ELSE compileTrigger(trigger)

CachePut(cache, trigger) ==
    IF CacheHas(cache, trigger) THEN cache
    ELSE cache \cup {[key |-> CacheKey(trigger), value |-> compileTrigger(trigger)]}

(***************************************************************************)
(* main.ts: wouldTriggerSnippet, the shouldPreventKey callback and         *)
(* handleTriggerKeyPressed with ExpansionService.checkForSnippetTrigger.   *)
(* Each returns its result together with the cache it leaves.              *)
(***************************************************************************)
RECURSIVE WouldFrom(_, _, _, _, _, _)
RECURSIVE WouldCompiled(_, _, _, _, _, _, _)
WouldFrom(snippets, k, cache, text, cursorCharIndex, triggerAction) ==
    IF k > Len(snippets) THEN [cache |-> cache, result |-> FALSE]
    ELSE IF ~snippets[k].isValid
         THEN WouldFrom(snippets, k + 1, cache, text, cursorCharIndex, triggerAction)
    ELSE WouldCompiled(snippets, k, CachePut(cache, snippets[k].trigger), text, cursorCharIndex,
                       triggerAction, CacheGet(cache, snippets[k].trigger))

WouldCompiled(snippets, k, cache, text, cursorCharIndex, triggerAction, compiledTrigger) ==
    IF matchesTrigger(compiledTrigger, text, cursorCharIndex, triggerAction)
    THEN [cache |-> cache, result |-> TRUE]
    ELSE WouldFrom(snippets, k + 1, cache, text, cursorCharIndex, triggerAction)

wouldTriggerSnippet(text, cursorCharIndex, triggerAction, cache) ==
    WouldFrom(collectRelevantSnippets(triggerAction, snippetMap), 1, cache, text,
              cursorCharIndex, triggerAction)

shouldPreventKey(key, text, cursorIndex, cache) ==
    CASE key = "Tab" -> wouldTriggerSnippet(text, cursorIndex, "tab", cache)
      [] key = " " -> wouldTriggerSnippet(text, cursorIndex, "space", cache)
      [] key = "Enter" -> wouldTriggerSnippet(text, cursorIndex, "newline", cache)
      [] key = "Backspace" -> wouldTriggerSnippet(text, cursorIndex, "backspace", cache)
      [] OTHER -> [cache |-> cache, result |-> FALSE]

NoSnippetMatch(cache) == [cache |-> cache, found |-> FALSE]

RECURSIVE CheckFrom(_, _, _, _, _)
RECURSIVE CheckCompiled(_, _, _, _, _, _)
CheckFrom(snippets, k, cache, context, triggerAction) ==
    IF k > Len(snippets) THEN NoSnippetMatch(cache)
    ELSE IF ~snippets[k].isValid THEN CheckFrom(snippets, k + 1, cache, context, triggerAction)
    ELSE CheckCompiled(snippets, k, CachePut(cache, snippets[k].trigger), context,
                       triggerAction, CacheGet(cache, snippets[k].trigger))

CheckCompiled(snippets, k, cache, context, triggerAction, compiledTrigger) ==
    IF ~shouldEvaluateInstantTrigger(snippets[k], context, triggerAction)
    THEN CheckFrom(snippets, k + 1, cache, context, triggerAction)
    ELSE IF ~matchesTrigger(compiledTrigger,
                            IF triggerAction = "instant" THEN context.afterText
                            ELSE context.beforeText,
                            context.cursorCharIndex, triggerAction)
         THEN CheckFrom(snippets, k + 1, cache, context, triggerAction)
    ELSE [cache |-> cache, found |-> TRUE, snippet |-> snippets[k],
          compiledTrigger |-> compiledTrigger, context |-> context,
          triggerAction |-> triggerAction]

checkForSnippetTrigger(context, triggerAction, map, cache) ==
    CheckFrom(collectRelevantSnippets(triggerAction, map), 1, cache, context, triggerAction)

handleTriggerKeyPressed(context, cache) ==
    IF getTriggerActionFromKey(context.triggerKey) = None THEN NoSnippetMatch(cache)
    ELSE checkForSnippetTrigger(context, getTriggerActionFromKey(context.triggerKey),
                                snippetMap, cache)

(***************************************************************************)
(* services/regex-matcher.ts.  A match is the record ExecFrom returns,     *)
(* with the spans of the "d" flag in `indices`: the whole match first,     *)
(* then the capture groups.                                                *)
(***************************************************************************)
NoMatch == [found |-> FALSE]

WithIndices(result) ==
    [found |-> TRUE, index |-> result.index, text |-> result.text, caps |-> result.caps,
     indices |-> <<<<result.index, result.end>>>> \o result.caps]

\* collectMatches: exec until null, stepping over an empty match.
RECURSIVE CollectFrom(_, _, _, _)
RECURSIVE CollectResult(_, _, _, _)
CollectFrom(regex, text, lastIndex, matches) ==
    CollectResult(regex, text, matches, ExecFrom(regex, text, lastIndex))

CollectResult(regex, text, matches, result) ==
    IF ~result.found THEN matches
    ELSE CollectFrom(regex, text,
                     IF result.index = result.end THEN result.end + 1 ELSE result.end,
                     Append(matches, WithIndices(result)))

collectMatches(regex, text) == CollectFrom(regex, text, 0, <<>>)

TextWithCursor(text, cursorIndex) ==
    Slice(text, 0, cursorIndex) \o <<CURSOR_MARKER_CHAR>> \o SliceFrom(text, cursorIndex)

HoldsMarker(match) == Includes(match.text, CURSOR_MARKER_CHAR)

\* matches.find(predicate) for the predicates of this file: the first match
\* whose index in `wanted` is set, or NoMatch.
FirstOf(matches, wanted) ==
    IF wanted = {} THEN NoMatch
    ELSE matches[CHOOSE k \in wanted : \A j \in wanted : k <= j]

\* cursorMatch ?? matches[0] ?? null
CursorMatchOrFirst(matches) ==
    IF matches = <<>> THEN NoMatch
    ELSE IF \E k \in 1..Len(matches) : HoldsMarker(matches[k])
         THEN FirstOf(matches, {k \in 1..Len(matches) : HoldsMarker(matches[k])})
    ELSE matches[1]

findMatchAtCursor(compiledTrigger, text, cursorIndex) ==
    CursorMatchOrFirst(collectMatches(compiledTrigger.regex, TextWithCursor(text, cursorIndex)))

\* match[0].replace(CURSOR_MARKER_CHAR, ''): the first marker is removed.
RECURSIVE RemoveFirstMarker(_)
RemoveFirstMarker(s) ==
    IF s = <<>> THEN s
    ELSE IF Head(s) = CURSOR_MARKER_CHAR THEN Tail(s)
    ELSE <<Head(s)>> \o RemoveFirstMarker(Tail(s))

\* indices.map(([start, end]) => [start, end - 1])
AdjustIndices(match) ==
    [match EXCEPT !.indices = [k \in DOMAIN match.indices |->
                                  <<match.indices[k][1], match.indices[k][2] - 1>>]]

AdjustIfMarked(match) ==
    IF match.found /\ HoldsMarker(match) THEN AdjustIndices(match) ELSE match

Distance(a, b) == IF a >= b THEN a - b ELSE b - a

\* Variant: of the matches whose cleaned text is the expected one, the last
\* that is farthest from preferredIndex.
FarthestFrom(matches, same, preferredIndex) ==
    CHOOSE k \in same :
        \A j \in same :
            \/ Distance(matches[k].index, preferredIndex) > Distance(matches[j].index, preferredIndex)
            \/ /\ Distance(matches[k].index, preferredIndex) = Distance(matches[j].index, preferredIndex)
               /\ k >= j

\* Of the matches whose cleaned text is the expected one, the index of the
\* first that is nearest to preferredIndex.
ClosestTo(matches, same, preferredIndex) ==
    CHOOSE k \in same :
        \A j \in same :
            \/ Distance(matches[k].index, preferredIndex) < Distance(matches[j].index, preferredIndex)
            \/ /\ Distance(matches[k].index, preferredIndex) = Distance(matches[j].index, preferredIndex)
               /\ k <= j

\* locateCurrentMatch once the matches are collected; `same` are the
\* matches whose text without the marker is expectedMatchText.  A match
\* holds the marker only when a cursor index was given; preferredMatch is
\* NoMatch when the caller gave none.
LocateAmong(matches, same, preferredMatch) ==
    IF \E k \in same : HoldsMarker(matches[k])
    THEN AdjustIndices(FirstOf(matches, {k \in same : HoldsMarker(matches[k])}))
    ELSE IF preferredMatch.found /\ \E k \in same : matches[k].index = preferredMatch.index
         THEN AdjustIfMarked(FirstOf(matches, {k \in same : matches[k].index = preferredMatch.index}))
    ELSE IF preferredMatch.found /\ same # {}
         THEN AdjustIfMarked(matches[ClosestTo(matches, same, preferredMatch.index)])
    ELSE AdjustIfMarked(FirstOf(matches, same))

SameText(matches, expectedMatchText) ==
    {k \in 1..Len(matches) : RemoveFirstMarker(matches[k].text) = expectedMatchText}

LocateIn(matches, expectedMatchText, preferredMatch) ==
    LocateAmong(matches, SameText(matches, expectedMatchText), preferredMatch)

locateCurrentMatch(compiledTrigger, text, expectedMatchText, preferredMatch, cursorIndex) ==
    LocateIn(collectMatches(compiledTrigger.regex, TextWithCursor(text, cursorIndex)),
             expectedMatchText, preferredMatch)

\* locateCurrentMatch called without a cursor index: the text is searched
\* as it is.
locateWithoutCursor(compiledTrigger, text, expectedMatchText, preferredMatch) ==
    LocateIn(collectMatches(compiledTrigger.regex, text), expectedMatchText, preferredMatch)

resolveMatchingContext(context, triggerAction) ==
    [textForMatching |-> IF triggerAction = "instant" THEN context.afterText
                         ELSE context.beforeText,
     cursorIndex |-> context.cursorCharIndex]

(***************************************************************************)
(* services/text-replacement-service.ts.                                   *)
(***************************************************************************)
\* The match of /\$\{?0(?::[^}]*)?\}?/ that starts at offset i: its end, or
\* -1 when there is none.
ReplacementMarkerEnd(s, i) ==
    LET zero == IF CharAt(s, i) # "$" THEN -1
                ELSE IF CharAt(s, i + 1) = "{" /\ CharAt(s, i + 2) = "0" THEN i + 2
                ELSE IF CharAt(s, i + 1) = "0" THEN i + 1
                ELSE -1
        k == IF CharAt(s, zero + 1) = ":" THEN RunOfNonBrace(s, zero + 2) ELSE zero + 1
    IN  IF zero < 0 THEN -1
        ELSE IF CharAt(s, k) = "}" THEN k + 1 ELSE k

RECURSIVE FindMarkerFrom(_, _)
FindMarkerFrom(s, i) ==
    IF i >= Len(s) THEN -1
    ELSE IF ReplacementMarkerEnd(s, i) >= 0 THEN i
    ELSE FindMarkerFrom(s, i + 1)

findCursorPositionInReplacement(replacementText) == FindMarkerFrom(replacementText, 0)

RECURSIVE RemoveMarkersFrom(_, _)
RemoveMarkersFrom(s, i) ==
    IF i >= Len(s) THEN <<>>
    ELSE IF ReplacementMarkerEnd(s, i) >= 0 THEN RemoveMarkersFrom(s, ReplacementMarkerEnd(s, i))
    ELSE <<s[i + 1]>> \o RemoveMarkersFrom(s, i + 1)

removeCursorMarkers(text) == RemoveMarkersFrom(text, 0)

DIGITS == <<"0", "1", "2", "3", "4", "5", "6", "7", "8", "9">>

IsDigit(c) == \E d \in 1..10 : DIGITS[d] = c

DigitValue(c) == (CHOOSE d \in 1..10 : DIGITS[d] = c) - 1

RECURSIVE DigitRun(_, _)
DigitRun(s, k) == IF k < Len(s) /\ IsDigit(s[k + 1]) THEN 1 + DigitRun(s, k + 1) ELSE 0

RECURSIVE ParseInt(_)
ParseInt(digits) ==
    IF digits = <<>> THEN 0
    ELSE 10 * ParseInt(SubSeq(digits, 1, Len(digits) - 1)) + DigitValue(digits[Len(digits)])

\* match[k]: the whole match for 0, the text of group k, undefined beyond
\* the groups and for a group that took no part in the match.
GroupText(match, k) ==
    IF k = 0 THEN [defined |-> TRUE, text |-> match.text]
    ELSE IF k <= Len(match.caps) /\ match.caps[k] # NoCapture
         THEN [defined |-> TRUE,
               text |-> Slice(match.text, match.caps[k][1] - match.index,
                              match.caps[k][2] - match.index)]
    ELSE [defined |-> FALSE, text |-> <<>>]

\* Variant: a reference keeps its index.
ActualIndexUnshifted(match, index) == index

\* `if (index > 1 && match[1] === '') actualIndex = index - 1`
ActualIndex(match, index) ==
    IF index > 1 /\ GroupText(match, 1).defined /\ GroupText(match, 1).text = <<>>
    THEN index - 1 ELSE index

GroupOrKept(group, matchStr) == IF group.defined THEN group.text ELSE matchStr

RECURSIVE SubstituteFrom(_, _, _)
SubstituteFrom(text, i, match) ==
    IF i >= Len(text) THEN <<>>
    ELSE IF text[i + 1] = "$" /\ DigitRun(text, i + 1) > 0
         THEN GroupOrKept(GroupText(match, ActualIndex(match,
                              ParseInt(Slice(text, i + 1, i + 1 + DigitRun(text, i + 1))))),
                          Slice(text, i, i + 1 + DigitRun(text, i + 1)))
              \o SubstituteFrom(text, i + 1 + DigitRun(text, i + 1), match)
    ELSE <<text[i + 1]>> \o SubstituteFrom(text, i + 1, match)

substituteCaptureGroups(text, match) == SubstituteFrom(text, 0, match)

\* replacement.join('\n')
RECURSIVE JoinLines(_)
JoinLines(lines) ==
    IF lines = <<>> THEN <<>>
    ELSE IF Len(lines) = 1 THEN lines[1]
    ELSE lines[1] \o <<"\n">> \o JoinLines(Tail(lines))

prepareReplacementText(snippet, match) ==
    substituteCaptureGroups(removeCursorMarkers(JoinLines(snippet.replacement)), match)

\* Variant: the end moves back without regard to the start.
adjustRangeUnclamped(range, triggerAction) ==
    IF triggerAction # "backspace" THEN range
    ELSE [start |-> range.start, end |-> range.end - 1]

adjustRangeForBackspace(range, triggerAction) ==
    IF triggerAction # "backspace" THEN range
    ELSE [start |-> range.start,
          end |-> IF range.end - 1 > range.start THEN range.end - 1 ELSE range.start]

getMatchRange(indices) == [start |-> indices[1][1], end |-> indices[1][2]]

\* Editor.getRange between two positions.
EditorGetRange(text, startPos, endPos) ==
    Slice(text, EditorPosToOffset(text, startPos), EditorPosToOffset(text, endPos))

\* Editor.replaceRange: the text after the change, and where a cursor at
\* `offset` is afterwards.
EditorReplaceRange(text, offset, replacementText, startPos, endPos) ==
    LET from == EditorPosToOffset(text, startPos)
        to == EditorPosToOffset(text, endPos)
    IN  [text |-> Slice(text, 0, from) \o replacementText \o SliceFrom(text, to),
         cursor |-> IF offset < from THEN offset
                    ELSE IF offset >= to THEN offset - (to - from) + Len(replacementText)
                    ELSE from + Len(replacementText)]

\* Variant: the character after the range is replaced with it.
performReplacementWithNext(text, offset, currentText, range, replacementText) ==
    EditorReplaceRange(text, offset, replacementText,
                       charIndexToEditorPos(currentText, range.start),
                       charIndexToEditorPos(currentText, range.end + 1))

\* performReplacement: the editor after replaceRange over the range as
\* positions of currentText.
performReplacement(text, offset, currentText, range, replacementText) ==
    EditorReplaceRange(text, offset, replacementText,
                       charIndexToEditorPos(currentText, range.start),
                       charIndexToEditorPos(currentText, range.end))

isReplacementApplied(currentText, replacementStartIndex, expectedText) ==
    IF Len(expectedText) = 0 THEN TRUE
    ELSE IF replacementStartIndex < 0 \/ replacementStartIndex > Len(currentText) THEN FALSE
    ELSE EditorGetRange(currentText,
                        charIndexToEditorPos(currentText, replacementStartIndex),
                        charIndexToEditorPos(currentText,
                            IF replacementStartIndex + Len(expectedText) < Len(currentText)
                            THEN replacementStartIndex + Len(expectedText)
                            ELSE Len(currentText)))
         = expectedText

\* positionCursor: the cursor offset it leaves, given the one it finds.
positionCursor(text, offset, snippet, replacementStartIndex) ==
    LET cursorPosInReplacement == findCursorPositionInReplacement(JoinLines(snippet.replacement))
        cursorPosInFinalText == replacementStartIndex + cursorPosInReplacement
    IN  IF cursorPosInReplacement = -1 THEN offset
        ELSE IF cursorPosInFinalText >= 0 /\ cursorPosInFinalText <= Len(text)
             THEN EditorPosToOffset(text, charIndexToEditorPos(text, cursorPosInFinalText))
        ELSE offset

(***************************************************************************)
(* services/snippet-executor.ts and command-execution-service.ts.          *)
(*                                                                         *)
(* A handler run and the microtasks it leaves are one step; an invocation  *)
(* of executeSnippet is suspended where it awaits something a later task   *)
(* resolves: the saving of the note, a window.setTimeout.  What a run of   *)
(* the executor reads and writes is passed along as a record st.           *)
(***************************************************************************)
Max(a, b) == IF a >= b THEN a ELSE b

REQUIRED_STABLE_CHECKS == 2

\* waitForReplacementToComplete: checkInterval, in milliseconds.
CHECK_INTERVAL == 10

MIN_INITIAL_COMMAND_DELAY == 50

\* updateCommandDelay(delay): the commandDelay it leaves.
updateCommandDelay(delay) == Max(0, delay)

\* runCommandSequence: the wait before the first command.
initialDelay == Max(commandDelay, MIN_INITIAL_COMMAND_DELAY)

KNOWN_COMMANDS == {"editor:toggle-bold", "editor:insert-link"}

ExecutorNow ==
    [executing |-> executing, calls |-> calls, timers |-> timers, text |-> docText,
     cursor |-> docCursor, started |-> started, lastCall |-> lastCall,
     lastOutcome |-> lastOutcome]

Commit(st) ==
    /\ executing' = st.executing
    /\ calls' = st.calls
    /\ timers' = st.timers
    /\ docText' = st.text
    /\ docCursor' = st.cursor
    /\ started' = st.started
    /\ lastCall' = st.lastCall
    /\ lastOutcome' = st.lastOutcome

KeydownTimer(key, beforeText, beforeCharIndex) ==
    [kind |-> "keydown", call |-> 0, key |-> key, beforeText |-> beforeText,
     beforeCharIndex |-> beforeCharIndex, delay |-> 0]

\* The timer of wait(duration) or of checkReplacement, for invocation id.
ExecutorTimer(kind, id, delay) ==
    [kind |-> kind, call |-> id, key |-> None, beforeText |-> <<>>, beforeCharIndex |-> 0,
     delay |-> delay]

NewCall(id, snippet, stage) ==
    [id |-> id, snippet |-> snippet, stage |-> stage, next |-> 0, start |-> 0,
     expected |-> <<>>, stable |-> 0]

\* The invocation is left suspended as `call`.
Suspend(st, call) == [st EXCEPT !.calls = {c \in @ : c.id # call.id} \cup {call}]

\* Variant: the invocation ends with the flag still set.
FinallyLocked(st, id, outcome) ==
    [st EXCEPT !.calls = {c \in @ : c.id # id},
               !.lastOutcome = outcome]

\* The finally block: the invocation is over.
Finally(st, id, outcome) ==
    [st EXCEPT !.executing = FALSE,
               !.calls = {c \in @ : c.id # id},
               !.lastOutcome = outcome]

\* executeCommands up to its first await.
executeCommands(st, id, snippet) ==
    IF Len(snippet.commands) = 0 THEN Finally(st, id, "finished")
    ELSE Suspend(st, NewCall(id, snippet, "saving"))

\* replaceText after performReplacement: the first checkReplacement runs at
\* once, counts one stable check at most, and arms its timer.
AwaitReplacement(st, id, snippet, replacementStartIndex, replacementText, edited) ==
    Suspend([st EXCEPT !.text = edited.text,
                       !.cursor = edited.cursor,
                       !.timers = Append(@, ExecutorTimer("checkReplacement", id, CHECK_INTERVAL))],
            [NewCall(id, snippet, "replacing")
                EXCEPT !.start = replacementStartIndex,
                       !.expected = replacementText,
                       !.stable = IF isReplacementApplied(edited.text, replacementStartIndex,
                                                          replacementText)
                                  THEN 1 ELSE 0])

ReplaceRange(st, id, snippet, currentText, adjustedRange, replacementText) ==
    AwaitReplacement(st, id, snippet, adjustedRange.start, replacementText,
                     performReplacement(st.text, st.cursor, currentText, adjustedRange,
                                        replacementText))

\* Variant: without replacement text the invocation is over.
replaceTextOrEnd(st, id, snippet, currentText, match, triggerAction) ==
    IF Len(snippet.replacement) = 0 THEN Finally(st, id, "finished")
    ELSE ReplaceRange(st, id, snippet, currentText,
                      adjustRangeForBackspace(getMatchRange(match.indices), triggerAction),
                      prepareReplacementText(snippet, match))

\* replaceText, and performCommandExecution after its return.
replaceText(st, id, snippet, currentText, match, triggerAction) ==
    IF Len(snippet.replacement) = 0 THEN executeCommands(st, id, snippet)
    ELSE ReplaceRange(st, id, snippet, currentText,
                      adjustRangeForBackspace(getMatchRange(match.indices), triggerAction),
                      prepareReplacementText(snippet, match))

findSnippetMatch(compiledTrigger, context, triggerAction) ==
    findMatchAtCursor(compiledTrigger,
                      resolveMatchingContext(context, triggerAction).textForMatching,
                      resolveMatchingContext(context, triggerAction).cursorIndex)

\* performTextReplacement and performCommandExecution, given the result of
\* locateCurrentMatch.
AfterLocate(r, st, id, currentMatch) ==
    IF ~currentMatch.found THEN executeCommands(st, id, r.snippet)
    ELSE replaceText(st, id, r.snippet, st.text, currentMatch, r.triggerAction)

\* The try block, given the result of findSnippetMatch.
AfterFind(r, st, id, match) ==
    IF ~match.found THEN Finally(st, id, "no match")
    ELSE AfterLocate(r, st, id,
                     locateCurrentMatch(r.compiledTrigger, st.text, match.text, match,
                                        r.context.cursorCharIndex))

\* Variant: the guard lets every call through.
GuardNeverRejects(flag) == FALSE

\* `if (this.executing) return`
GuardRejects(flag) == flag

\* Variant: the invocation starts without setting the flag.
BeginWithoutFlag(st) == [st EXCEPT !.started = @ + 1, !.lastCall = "started"]

\* `this.executing = true`
BeginExecution(st) ==
    [st EXCEPT !.executing = TRUE, !.started = @ + 1, !.lastCall = "started"]

Execute(r, st) ==
    AfterFind(r, st, st.started, findSnippetMatch(r.compiledTrigger, r.context, r.triggerAction))

executeSnippet(r, st) ==
    IF GuardRejects(st.executing) THEN [st EXCEPT !.lastCall = "rejected"]
    ELSE Execute(r, BeginExecution(st))

\* onSnippetMatch of checkForSnippetTrigger, called for the snippet it found.
Dispatch(r, st) == IF r.found THEN executeSnippet(r, st) ELSE st

(***************************************************************************)
(* The plugin at work in one note.  The user types on a desktop keyboard   *)
(* into the focused editor of a markdown view; a keystroke dispatches      *)
(* keydown, beforeinput, the edit and input in one task, and timers and    *)
(* the saving of the note run between keystrokes.                          *)
(***************************************************************************)
MaxUserActions == 3

Keys == {"a", "b", " ", "Tab", "Enter", "Backspace", "Shift", "Process"}

InitialTexts == {<<>>, <<"a">>}

\* The snippets of the settings.
MainConfig ==
    << [trigger |-> <<"a", "b">>,
        replacement |-> StringArray(<< <<"x">> >>),
        commands |-> StringArray(<<"editor:toggle-bold", "missing:command">>)],
       [trigger |-> <<"a">> \o Placeholder(<<"t", "a", "b">>),
        replacement |-> StringArray(<< <<"y">> >>),
        commands |-> StringArray(<<"editor:insert-link">>)],
       [trigger |-> <<"b">> \o Placeholder(<<"s", "p", "a", "c", "e", ",", "e", "n", "t", "e", "r">>),
        replacement |-> Absent,
        commands |-> Absent] >>

\* onload: the settings are loaded and the listeners registered.
MainInit ==
    /\ ProbeOff
    /\ loadedFrom = MainConfig
    /\ parsedSnippets = validateAndParseSnippets(MainConfig)
    /\ snippetMap = createSnippetMap(validateAndParseSnippets(MainConfig))
    /\ snippetsValid = AllValid(validateAndParseSnippets(MainConfig))
    /\ compiledTriggers = {}
    /\ lastValidationError = NoError
    /\ lastValidSnippets = ArrayJsonc(MainConfig)
    /\ docText \in InitialTexts
    /\ docCursor \in 0..Len(docText)
    /\ selected = FALSE
    /\ phase = "idle"
    /\ evt = NoKeystroke
    /\ timers = <<>>
    /\ userActions = 0
    /\ pendingInstantInput = NoPending
    /\ lastKeyboardInstantTimestamp = "null"
    /\ executing = FALSE
    /\ calls = {}
    /\ started = 0
    /\ lastCall = None
    /\ lastOutcome = None
    /\ commandLog = <<>>
    /\ settingsJsonc = ArrayJsonc(MainConfig)
    /\ savedJsonc = ArrayJsonc(MainConfig)
    /\ listenerValid = TRUE
    /\ mainPc = "idle"
    /\ loads = 0
    /\ lastLoadFailed = FALSE
    /\ commandDelay = DEFAULT_COMMAND_DELAY
    /\ listeners = {1}
    /\ unregisterExpansionListener = 1

IGNORED_KEYS ==
    {"Shift", "Control", "Alt", "Meta", "CapsLock", "Escape", "ArrowUp", "ArrowDown",
     "ArrowLeft", "ArrowRight"}

PREVENTABLE_KEYS == {"Tab", " ", "Enter", "Backspace"}

INSTANT_INPUT_TYPES == {"insertText", "insertReplacementText", "insertCompositionText"}

isIOS == FALSE

\* The active view is a markdown view whose editor has the focus; snippetsValid
\* is the argument setupExpansionMechanism was called with.
isInteractionAllowed == listenerValid

CursorCharIndexNow == getCursorCharIndex(docText, EditorGetCursor(docText, docCursor))

\* The input events the browser dispatches for a key it is left to handle.
DefaultEvents(key) ==
    IF IsOneCharacter(key)
    THEN {[key |-> key, inputType |-> "insertText", data |-> <<key>>]}
    ELSE IF key = "Process"
    THEN {[key |-> key, inputType |-> "insertCompositionText", data |-> <<c>>] :
             c \in TextAlphabet}
    ELSE IF key = "Enter" THEN {[key |-> key, inputType |-> "insertLineBreak", data |-> <<>>]}
    ELSE IF key = "Backspace"
    THEN {[key |-> key, inputType |-> "deleteContentBackward", data |-> <<>>]}
    ELSE {}

TriggerContext(triggerKey, insertedText, beforeText, afterText, cursorCharIndex, deletedChar) ==
    [triggerKey |-> triggerKey, insertedText |-> insertedText, beforeText |-> beforeText,
     afterText |-> afterText, cursorCharIndex |-> cursorCharIndex, deletedChar |-> deletedChar]

(***************************************************************************)
(* ExpansionService.createKeyboardHandler.  A handler returns what it      *)
(* leaves behind: the cache of compiled triggers, the executor and the     *)
(* timers.                                                                 *)
(***************************************************************************)
KeyResult(prevented, cache, st) == [prevented |-> prevented, cache |-> cache, st |-> st]

\* From the test of the key's length to window.setTimeout.
ScheduleCallback(key, cache) ==
    IF ~IsOneCharacter(key) /\ ~isUnreliableInstantKey(key)
    THEN KeyResult(FALSE, cache, ExecutorNow)
    ELSE KeyResult(FALSE, cache,
                   [ExecutorNow EXCEPT
                       !.timers = Append(@, KeydownTimer(key, docText, CursorCharIndexNow))])

PreventedContext(key, currentText, cursorIndex) ==
    TriggerContext(key, <<>>, currentText, currentText, cursorIndex,
                   IF key = "Backspace" /\ cursorIndex > 0 THEN currentText[cursorIndex]
                   ELSE None)

KeyPrevented(r) == KeyResult(TRUE, r.cache, Dispatch(r, ExecutorNow))

\* handlePreventableKey, given the answer of shouldPreventKey.
AfterPreventCheck(key, cursorIndex, prevent) ==
    IF ~prevent.result THEN ScheduleCallback(key, prevent.cache)
    ELSE KeyPrevented(handleTriggerKeyPressed(PreventedContext(key, docText, cursorIndex),
                                              prevent.cache))

handlePreventableKey(key, cursorIndex) ==
    AfterPreventCheck(key, cursorIndex,
                      shouldPreventKey(key, docText, cursorIndex, compiledTriggers))

keyboardHandler(key) ==
    IF ~isInteractionAllowed \/ executing \/ selected \/ key \in IGNORED_KEYS
    THEN KeyResult(FALSE, compiledTriggers, ExecutorNow)
    ELSE IF key \in PREVENTABLE_KEYS THEN handlePreventableKey(key, CursorCharIndexNow)
    ELSE ScheduleCallback(key, compiledTriggers)

\* The callback the keyboard handler hands to window.setTimeout(.., 0).  A
\* callback returns the timestamp, the cache, the executor and the command
\* log it leaves behind.
Outcome(timestamp, cache, st, log) ==
    [timestamp |-> timestamp, cache |-> cache, st |-> st, log |-> log]

KeydownDetected(timestamp, r, st) == Outcome(timestamp, r.cache, Dispatch(r, st), commandLog)

KeydownAnticipated(timer, st, afterText, cursorCharIndex, insertedText, normalizedKey, anticipatedAction) ==
    IF anticipatedAction = "instant" /\ insertedText = <<>> /\ IsOneCharacter(timer.key)
    THEN Outcome("null", compiledTriggers, st, commandLog)
    ELSE KeydownDetected(IF anticipatedAction = "instant" THEN "recent"
                         ELSE IF anticipatedAction # None THEN "null"
                         ELSE lastKeyboardInstantTimestamp,
                         handleTriggerKeyPressed(
                             TriggerContext(normalizedKey, insertedText, timer.beforeText,
                                            afterText, cursorCharIndex, None),
                             compiledTriggers),
                         st)

KeydownNormalized(timer, st, afterText, cursorCharIndex, insertedText, normalizedKey) ==
    KeydownAnticipated(timer, st, afterText, cursorCharIndex, insertedText, normalizedKey,
                       getTriggerActionFromKey(normalizedKey))

KeydownInserted(timer, st, afterText, cursorCharIndex, insertedText) ==
    KeydownNormalized(timer, st, afterText, cursorCharIndex, insertedText,
                      normalizeTriggerKey(timer.key, insertedText,
                                          getGraphemeBeforeIndex(afterText, cursorCharIndex)))

keydownCallback(timer, st) ==
    KeydownInserted(timer, st, docText, CursorCharIndexNow,
                    extractInsertedText(docText, timer.beforeCharIndex, CursorCharIndexNow))

(***************************************************************************)
(* services/instant-input-handler.ts.                                      *)
(***************************************************************************)
captureBeforeInput(event) ==
    IF \/ event.inputType \notin INSTANT_INPUT_TYPES
       \/ ~isInteractionAllowed
       \/ executing
       \/ selected
    THEN pendingInstantInput
    ELSE [isNull |-> FALSE, beforeText |-> docText, beforeCharIndex |-> CursorCharIndexNow,
          data |-> event.data, inputType |-> event.inputType]

HasNonWhitespace(text) == \E k \in 1..Len(text) : text[k] \notin {" ", "\n", "\t"}

\* a || b of two strings.
OrElse(a, b) == IF a # <<>> THEN a ELSE b

\* Reads the timestamp; the call leaves it null.
shouldSuppressInstantInput == lastKeyboardInstantTimestamp = "recent"

InputDetected(r) == Outcome("null", r.cache, Dispatch(r, ExecutorNow), commandLog)

InputIgnored(timestamp) == Outcome(timestamp, compiledTriggers, ExecutorNow, commandLog)

InputWithText(pending, cursorCharIndex, insertedText) ==
    IF insertedText = <<>> \/ ~HasNonWhitespace(insertedText)
    THEN InputIgnored(lastKeyboardInstantTimestamp)
    ELSE IF shouldSuppressInstantInput \/ isIOS THEN InputIgnored("null")
    ELSE InputDetected(handleTriggerKeyPressed(
                           TriggerContext(getLastNormalizedGrapheme(insertedText), insertedText,
                                          pending.beforeText, docText, cursorCharIndex, None),
                           compiledTriggers))

InputAt(pending, cursorCharIndex) ==
    InputWithText(pending, cursorCharIndex,
                  OrElse(extractInsertedText(docText, pending.beforeCharIndex, cursorCharIndex),
                         pending.data))

\* pendingInstantInput is null on every return.
handleInput(event) ==
    IF \/ event.inputType \notin INSTANT_INPUT_TYPES
       \/ pendingInstantInput.isNull
       \/ ~isInteractionAllowed
    THEN InputIgnored(lastKeyboardInstantTimestamp)
    ELSE InputAt(pendingInstantInput, CursorCharIndexNow)

(***************************************************************************)
(* The continuations of a suspended executeSnippet.                        *)
(***************************************************************************)
CallOf(st, id) == CHOOSE c \in st.calls : c.id = id

\* AfterWait with a sequence that a failing command ends.
AfterWaitStopping(c, st, ran) ==
    Outcome(lastKeyboardInstantTimestamp, compiledTriggers,
            IF ~ran THEN Finally(st, c.id, "failed")
            ELSE IF c.next < Len(c.snippet.commands) - 1
            THEN Suspend([st EXCEPT !.timers = Append(@, ExecutorTimer("wait", c.id, commandDelay))],
                         [c EXCEPT !.next = @ + 1])
            ELSE Finally(st, c.id, "finished"),
            IF ran /\ c.snippet.commands[c.next + 1] \in KNOWN_COMMANDS
            THEN Append(commandLog, c.snippet.commands[c.next + 1])
            ELSE commandLog)

\* runCommandSequence from the end of a wait: command `next` is run (it is
\* unknown, or it runs, or it throws), then the next wait starts or the
\* sequence, and with it the invocation, is over.
AfterWait(c, st, ran) ==
    Outcome(lastKeyboardInstantTimestamp, compiledTriggers,
            IF c.next < Len(c.snippet.commands) - 1
            THEN Suspend([st EXCEPT !.timers = Append(@, ExecutorTimer("wait", c.id, commandDelay))],
                         [c EXCEPT !.next = @ + 1])
            ELSE Finally(st, c.id, "finished"),
            IF ran /\ c.snippet.commands[c.next + 1] \in KNOWN_COMMANDS
            THEN Append(commandLog, c.snippet.commands[c.next + 1])
            ELSE commandLog)

\* positionCursor, the return of performTextReplacement, executeCommands.
ReplacementComplete(c, st) ==
    executeCommands([st EXCEPT !.cursor = positionCursor(st.text, st.cursor, c.snippet, c.start)],
                    c.id, c.snippet)

\* checkReplacement of waitForReplacementToComplete, run by its timer.
CheckReplacement(c, st, applied, timedOut) ==
    Outcome(lastKeyboardInstantTimestamp, compiledTriggers,
            IF (applied /\ c.stable + 1 >= REQUIRED_STABLE_CHECKS) \/ timedOut
            THEN ReplacementComplete(c, st)
            ELSE Suspend([st EXCEPT !.timers = Append(@, ExecutorTimer("checkReplacement", c.id, CHECK_INTERVAL))],
                         [c EXCEPT !.stable = IF applied THEN @ + 1 ELSE 0]),
            commandLog)

(***************************************************************************)
(* The steps of the event loop.                                            *)
(***************************************************************************)
SettingsUnchanged ==
    UNCHANGED <<loadedFrom, parsedSnippets, snippetMap, snippetsValid, lastValidationError,
                lastValidSnippets>>

\* What a callback leaves behind becomes the state.
Settle(res) ==
    /\ lastKeyboardInstantTimestamp' = res.timestamp
    /\ compiledTriggers' = res.cache
    /\ Commit(res.st)
    /\ commandLog' = res.log

KeyDownHandled(key, h) ==
    /\ compiledTriggers' = h.cache
    /\ Commit(h.st)
    /\ IF h.prevented \/ DefaultEvents(key) = {}
       THEN phase' = "idle" /\ evt' = NoKeystroke
       ELSE phase' = "beforeinput" /\ evt' \in DefaultEvents(key)

\* The user presses a key: the keydown listener runs.
KeyDown ==
    /\ phase = "idle"
    /\ userActions < MaxUserActions
    /\ userActions' = userActions + 1
    /\ \E key \in Keys : KeyDownHandled(key, keyboardHandler(key))
    /\ SettingsUnchanged
    /\ UNCHANGED <<probeVars, settingsVars, selected, handlerVars, commandLog>>

\* The beforeinput listener runs.
BeforeInput ==
    /\ phase = "beforeinput"
    /\ phase' = "default"
    /\ pendingInstantInput' = captureBeforeInput(evt)
    /\ UNCHANGED <<probeVars, settingsVars, serviceVars, editorVars, evt, timers, userActions,
                   lastKeyboardInstantTimestamp, executorVars>>

\* The text the editor inserts for an input event.
InsertedBy(event) == IF event.inputType = "insertLineBreak" THEN <<"\n">> ELSE event.data

Typed(text) ==
    IF selected THEN [text |-> text, cursor |-> Len(text)]
    ELSE [text |-> Slice(docText, 0, docCursor) \o text \o SliceFrom(docText, docCursor),
          cursor |-> docCursor + Len(text)]

Deleted ==
    IF selected THEN [text |-> <<>>, cursor |-> 0]
    ELSE IF docCursor = 0 THEN [text |-> docText, cursor |-> docCursor]
    ELSE [text |-> Slice(docText, 0, docCursor - 1) \o SliceFrom(docText, docCursor),
          cursor |-> docCursor - 1]

EditorInput(event) ==
    IF event.inputType = "deleteContentBackward" THEN Deleted ELSE Typed(InsertedBy(event))

\* The editor applies the keystroke, or another listener has cancelled it.
DefaultAction ==
    /\ phase = "default"
    /\ \E applied \in BOOLEAN :
          IF applied
          THEN /\ docText' = EditorInput(evt).text
               /\ docCursor' = EditorInput(evt).cursor
               /\ selected' = FALSE
               /\ phase' = "input"
               /\ UNCHANGED evt
          ELSE /\ phase' = "idle"
               /\ evt' = NoKeystroke
               /\ UNCHANGED editorVars
    /\ UNCHANGED <<probeVars, settingsVars, serviceVars, timers, userActions, handlerVars, executorVars>>

\* The input listener runs.
Input ==
    /\ phase = "input"
    /\ phase' = "idle"
    /\ evt' = NoKeystroke
    /\ pendingInstantInput' = NoPending
    /\ Settle(handleInput(evt))
    /\ SettingsUnchanged
    /\ UNCHANGED <<probeVars, settingsVars, selected, userActions>>

TimerFired(timer, st) ==
    IF timer.kind = "keydown" THEN Settle(keydownCallback(timer, st))
    ELSE IF timer.kind = "wait"
    THEN \E ran \in BOOLEAN : Settle(AfterWait(CallOf(st, timer.call), st, ran))
    ELSE \E timedOut \in BOOLEAN :
            Settle(CheckReplacement(CallOf(st, timer.call), st,
                                    isReplacementApplied(st.text, CallOf(st, timer.call).start,
                                                         CallOf(st, timer.call).expected),
                                    timedOut))

\* Callbacks scheduled with the same delay run in the order they were
\* scheduled in: of the keydown callbacks only the oldest is due.
Due(k) == timers[k].kind = "keydown" => \A j \in 1..(k - 1) : timers[j].kind # "keydown"

\* A window.setTimeout callback runs.
TimerFire ==
    /\ phase = "idle"
    /\ \E k \in 1..Len(timers) :
          /\ Due(k)
          /\ TimerFired(timers[k],
                        [ExecutorNow EXCEPT
                            !.timers = SubSeq(timers, 1, k - 1) \o SubSeq(timers, k + 1, Len(timers))])
    /\ SettingsUnchanged
    /\ UNCHANGED <<probeVars, settingsVars, selected, phase, evt, userActions, pendingInstantInput>>

\* AfterSave with the configured delay as the first wait.
AfterSaveUnfloored(c, st, editorOk) ==
    IF Len(c.snippet.replacement) > 0 /\ ~editorOk THEN Finally(st, c.id, "failed")
    ELSE Suspend([st EXCEPT !.timers = Append(@, ExecutorTimer("wait", c.id, commandDelay))],
                 [c EXCEPT !.stage = "waiting"])

\* The timer of checkReplacement runs when maxWaitTime has gone by.
TimesOut(c, st) ==
    Settle(CheckReplacement(c, st, isReplacementApplied(st.text, c.start, c.expected), TRUE))

\* checkReplacement finds elapsedTime >= maxWaitTime: one of the ways
\* TimerFire runs a timer of checkReplacement.
PollTimesOut ==
    /\ phase = "idle"
    /\ \E k \in 1..Len(timers) :
          /\ timers[k].kind = "checkReplacement"
          /\ TimesOut(CallOf(ExecutorNow, timers[k].call),
                      [ExecutorNow EXCEPT
                          !.timers = SubSeq(timers, 1, k - 1) \o SubSeq(timers, k + 1, Len(timers))])
    /\ SettingsUnchanged
    /\ UNCHANGED <<probeVars, settingsVars, selected, phase, evt, userActions, pendingInstantInput>>

\* verifyReplacement and the first wait of runCommandSequence.
AfterSave(c, st, editorOk) ==
    IF Len(c.snippet.replacement) > 0 /\ ~editorOk THEN Finally(st, c.id, "failed")
    ELSE Suspend([st EXCEPT !.timers = Append(@, ExecutorTimer("wait", c.id, initialDelay))],
                 [c EXCEPT !.stage = "waiting"])

\* activeView.save() settles: executeCommands goes on.
SaveDone ==
    /\ phase = "idle"
    /\ \E c \in calls :
          /\ c.stage = "saving"
          /\ \E editorOk \in BOOLEAN :
                /\ Commit(AfterSave(c, ExecutorNow, editorOk))
                /\ selected' = IF Len(c.snippet.replacement) > 0 /\ editorOk THEN FALSE
                               ELSE selected
    /\ UNCHANGED <<probeVars, settingsVars, serviceVars, phase, evt, userActions, handlerVars, commandLog>>

\* INSTANT_INPUT_SUPPRESSION_MS go by.
TimePasses ==
    /\ phase = "idle"
    /\ lastKeyboardInstantTimestamp = "recent"
    /\ lastKeyboardInstantTimestamp' = "old"
    /\ UNCHANGED <<probeVars, settingsVars, serviceVars, editorVars, loopVars, pendingInstantInput,
                   executorVars>>

\* The user selects the whole note, or drops the selection.
UserSelects ==
    /\ phase = "idle"
    /\ userActions < MaxUserActions
    /\ docText # <<>>
    /\ userActions' = userActions + 1
    /\ selected' = ~selected
    /\ UNCHANGED <<probeVars, settingsVars, serviceVars, docText, docCursor, phase, evt, timers,
                   handlerVars, executorVars>>

Next ==
    \/ KeyDown
    \/ BeforeInput
    \/ DefaultAction
    \/ Input
    \/ TimerFire
    \/ SaveDone
    \/ TimePasses
    \/ UserSelects

Spec == MainInit /\ [][Next]_vars

(***************************************************************************)
(* AutoExpander (main.ts): onload, updateSnippets and                      *)
(* resetToLastValidSnippets.  The awaits of updateSnippets that precede    *)
(* its loadSnippets write and read the plugin data only; from loadSnippets *)
(* to setupExpansionMechanism nothing is awaited but resolved promises, so *)
(* no event is dispatched in between.  resetToLastValidSnippets awaits the *)
(* plugin data between the two, and events are dispatched in the meantime. *)
(***************************************************************************)
DuplicateConfig == <<MainConfig[1], MainConfig[1]>>

NoTriggerConfig ==
    <<MainConfig[2], [trigger |-> <<>>, replacement |-> Absent, commands |-> Absent]>>

JsoncSources ==
    { EmptyJsonc, MalformedJsonc, ObjectJsonc, ArrayJsonc(MainConfig),
      ArrayJsonc(<<MainConfig[2]>>), ArrayJsonc(DuplicateConfig), ArrayJsonc(NoTriggerConfig) }

\* The teardown handle that ExpansionService.setupExpansionMechanism returns
\* removes the listeners that the call has added; removing listeners that
\* are not registered does nothing.
Unregistered(registered, handle) == registered \ {handle}

\* The number that stands for a set of listeners just created.
NewListeners(registered) ==
    CHOOSE n \in 1..(Cardinality(registered) + 1) :
       n \notin registered /\ \A k \in 1..(n - 1) : k \in registered

\* The listeners registered before are removed; the new ones are created
\* with the validity the service reports now, and with no pending input.
setupExpansionMechanism ==
    /\ listenerValid' = snippetsValid'
    /\ pendingInstantInput' = NoPending
    /\ unregisterExpansionListener' =
           NewListeners(Unregistered(listeners, unregisterExpansionListener))
    /\ listeners' = Unregistered(listeners, unregisterExpansionListener)
                        \cup {unregisterExpansionListener'}

\* The plugin is constructed and enabled; its data is on disk.  Updating and
\* resetting the snippets are actions of the user, as keystrokes are.
SettingsInit ==
    /\ ProbeOff
    /\ loadedFrom = <<>>
    /\ parsedSnippets = <<>>
    /\ snippetMap = EmptySnippetMap
    /\ snippetsValid = TRUE
    /\ compiledTriggers = {}
    /\ lastValidationError = NoError
    /\ lastValidSnippets = EmptyJsonc
    /\ EditorOff
    /\ settingsJsonc = EmptyJsonc
    /\ savedJsonc \in JsoncSources
    /\ listenerValid = FALSE
    /\ mainPc = "unloaded"
    /\ loads = 0
    /\ lastLoadFailed = FALSE
    /\ commandDelay = DEFAULT_COMMAND_DELAY
    /\ listeners = {}
    /\ unregisterExpansionListener = 0

\* initializePlugin.
Onload ==
    /\ mainPc = "unloaded"
    /\ settingsJsonc' = savedJsonc
    /\ loadSnippets(savedJsonc)
    /\ lastLoadFailed' = ~parseJsoncSnippets(savedJsonc).error.isNull
    /\ setupExpansionMechanism
    /\ mainPc' = "idle"
    /\ UNCHANGED <<probeVars, editorVars, loopVars, executorVars, lastKeyboardInstantTimestamp,
                   savedJsonc, loads, commandDelay>>

\* AutoExpander.updateSnippets(snippetsJsonc), from the settings tab.
UpdateSnippets ==
    /\ mainPc \in {"idle", "reloading"}
    /\ phase = "idle"
    /\ userActions < MaxUserActions
    /\ \E snippetsJsonc \in JsoncSources :
          /\ savedJsonc' = snippetsJsonc
          /\ settingsJsonc' = snippetsJsonc
          /\ loadSnippets(snippetsJsonc)
          /\ lastLoadFailed' = ~parseJsoncSnippets(snippetsJsonc).error.isNull
    /\ setupExpansionMechanism
    /\ loads' = loads + 1
    /\ userActions' = userActions + 1
    /\ UNCHANGED <<probeVars, editorVars, phase, evt, timers, executorVars,
                   lastKeyboardInstantTimestamp, mainPc, commandDelay>>

\* AutoExpander.resetToLastValidSnippets up to `await loadSettings()`:
\* SnippetService.resetToLastValidSnippets returns an error when there is
\* nothing to reset to, and otherwise writes the last valid text into the
\* settings object and loads it.
ResetToLastValid ==
    /\ mainPc = "idle"
    /\ phase = "idle"
    /\ userActions < MaxUserActions
    /\ userActions' = userActions + 1
    /\ IF lastValidSnippets = EmptyJsonc
       THEN UNCHANGED <<serviceVars, settingsVars>>
       ELSE /\ settingsJsonc' = lastValidSnippets
            /\ loadSnippets(lastValidSnippets)
            /\ lastLoadFailed' = ~parseJsoncSnippets(lastValidSnippets).error.isNull
            /\ loads' = loads + 1
            /\ mainPc' = "reloading"
            /\ UNCHANGED <<savedJsonc, listenerValid, commandDelay, listeners,
                           unregisterExpansionListener>>
    /\ UNCHANGED <<probeVars, editorVars, phase, evt, timers, handlerVars, executorVars>>

\* The rest of AutoExpander.resetToLastValidSnippets: the settings are read
\* back from the plugin data, and the listeners are registered anew.
ResetFinish ==
    /\ mainPc \in {"reloading", "reloading after unload"}
    /\ phase = "idle"
    /\ settingsJsonc' = savedJsonc
    /\ UNCHANGED serviceVars
    /\ setupExpansionMechanism
    /\ mainPc' = IF mainPc = "reloading" THEN "idle" ELSE "gone"
    /\ UNCHANGED <<probeVars, editorVars, loopVars, executorVars, lastKeyboardInstantTimestamp,
                   savedJsonc, loads, lastLoadFailed, commandDelay>>

SettingsNext == Onload \/ UpdateSnippets \/ ResetToLastValid \/ ResetFinish

SpecSettings == SettingsInit /\ [][SettingsNext]_vars

\* The editor is in use while the snippets are updated and reset.
ReloadNext == Next \/ UpdateSnippets \/ ResetToLastValid \/ ResetFinish

SpecReload == MainInit /\ [][ReloadNext]_vars

(***************************************************************************)
(* Properties of the executing flag.                                       *)
(***************************************************************************)
KeydownCallbacks(queue) == Len(SelectSeq(queue, LAMBDA t : t.kind = "keydown"))

\* A step taken while an expansion is executing starts no expansion and
\* leaves no event behind to be looked at later: no invocation passes the
\* guard, no keydown callback is scheduled, no beforeinput state is captured.
DroppedWhileExecuting ==
    executing =>
        /\ started' = started
        /\ KeydownCallbacks(timers') <= KeydownCallbacks(timers)
        /\ pendingInstantInput' \in {pendingInstantInput, NoPending}

\* C1: while an expansion is executing, any other trigger-worthy event
\* produces no expansion of its own, neither interleaved with the running
\* one nor queued and run later, and at most one expansion is in flight (and
\* so can touch the buffer) at any time.
C1_OneExpansionAtATime ==
    /\ [](Cardinality(calls) <= 1)
    /\ [][DroppedWhileExecuting]_vars

\* C1 witness: an expansion is in flight with its commands pending, and a
\* trigger-worthy event that found a snippet has been turned away by the guard.
C1_Witness ==
    /\ executing
    /\ lastCall = "rejected"
    /\ \E c \in calls : c.stage \in {"saving", "waiting"}

\* The flag falls only in the step that ends the invocation: after the last
\* command of the sequence, or on the error that ends the execution.
ClearedAtTheEnd ==
    (executing /\ ~executing') =>
        /\ calls' = {}
        /\ \A c \in calls :
              \/ /\ lastOutcome' = "finished"
                 /\ c.stage = "waiting"
                 /\ c.next = Len(c.snippet.commands) - 1
              \/ /\ lastOutcome' = "failed"
                 /\ c.stage = "saving"

\* A step in which the executor edits the buffer (replaceRange) ends with
\* the flag set.
SetBeforeEdit == (docText' # docText /\ phase # "default") => executing'

InvalidCount == Len(InvalidOnes(parsedSnippets))

\* C11: after any sequence of snippet loads and resets, the overall valid
\* status is false only if at least one snippet of the current parsed list
\* is invalid.
C11_AsStated == ~snippetsValid => InvalidCount > 0

\* A step that passes the guard of executeSnippet.
ExpansionStarts == started' # started

\* C12: while the current snippet set is in the error state no input event
\* leads to an expansion, and at every moment the listeners act on the
\* validity of the most recent load, never on a stale one.
C12_AsStated ==
    /\ [][~snippetsValid => ~ExpansionStarts]_vars
    /\ [](listenerValid = snippetsValid)

\* A step in which loadSnippets is called and returns a configuration error.
LoadFails == loads' # loads /\ lastLoadFailed'

\* C13: when a load fails with a configuration error while the set loaded
\* before is fully valid and in use, expansion remains available on that
\* set: the listeners still allow interaction, and the snippets looked up
\* are the same.
C13_AsStated ==
    [][(LoadFails /\ snippetsValid /\ listenerValid /\ Len(parsedSnippets) > 0 /\ mainPc' = "idle")
          => (listenerValid' /\ snippetMap' = snippetMap)]_vars

(***************************************************************************)
(* A probe of checkForSnippetTrigger: a list of snippets is loaded, and    *)
(* trigger contexts as the listeners build them are checked against it.    *)
(***************************************************************************)
MaxTriggerSnippets == 2

MaxContextLen == 2

Bare(trigger) == [trigger |-> trigger, replacement |-> Absent, commands |-> Absent]

TriggerPool ==
    { Bare(<<"b", "a">> \o Placeholder(Spell("newline"))),
      Bare(<<"a">> \o Placeholder(Spell("enter"))),
      Bare(<<"a">> \o Placeholder(Spell("enter") \o <<",">> \o Spell("newline"))),
      Bare(<<"a", "b", "$", "0">>),
      Bare(<<"a", "b", "$", "{", "0", "}">>),
      Bare(<<"b">> \o Placeholder(Spell("instant"))),
      Bare(<<"a", "b">>) }

TriggerLists == UNION {[1..n -> TriggerPool] : n \in 1..MaxTriggerSnippets}

ContextTexts == UNION {[1..n -> {"a", "b"}] : n \in 0..MaxContextLen}

\* The context of a character that the keystroke has inserted at the cursor.
InstantContext(key, beforeText, cursorIndex) ==
    TriggerContext(key, <<key>>, beforeText,
                   Slice(beforeText, 0, cursorIndex) \o <<key>> \o SliceFrom(beforeText, cursorIndex),
                   cursorIndex + 1, None)

TriggerProbeInit ==
    /\ mIn = None
    /\ mPc = "constructed"
    /\ mCompiled = None
    /\ mResult = None
    /\ ServiceInit
    /\ MainOff

LoadTriggers ==
    /\ mPc = "constructed"
    /\ \E snippets \in TriggerLists : loadSnippetsFromRaw(snippets)
    /\ mPc' = "loaded"
    /\ UNCHANGED <<mIn, mCompiled, mResult, mainVars>>

\* checkForSnippetTrigger, for a typed character or a prevented Enter; the
\* activation kind is the one handleTriggerKeyPressed derives from the key,
\* or "newline".
CheckTrigger ==
    /\ mPc \in {"loaded", "checked"}
    /\ \E beforeText \in ContextTexts, key \in {"a", "b", "0", "Enter"} :
       \E cursorIndex \in 0..Len(beforeText) :
       \E triggerAction \in {getTriggerActionFromKey(key)}
                              \cup (IF key = "Enter" THEN {"newline"} ELSE {}) :
          /\ mIn' = [context |-> IF key = "Enter"
                                 THEN PreventedContext(key, beforeText, cursorIndex)
                                 ELSE InstantContext(key, beforeText, cursorIndex),
                     triggerAction |-> triggerAction]
          /\ mResult' = checkForSnippetTrigger(mIn'.context, triggerAction, snippetMap, {})
    /\ mPc' = "checked"
    /\ compiledTriggers' = mResult'.cache
    /\ UNCHANGED <<mCompiled, loadedFrom, parsedSnippets, snippetMap, snippetsValid,
                   lastValidationError, lastValidSnippets, mainVars>>

TriggerProbeNext == LoadTriggers \/ CheckTrigger

SpecTrigger == TriggerProbeInit /\ [][TriggerProbeNext]_vars

(***************************************************************************)
(* Properties of checkForSnippetTrigger.                                   *)
(***************************************************************************)
Checked == mPc = "checked"

\* The activation kinds a parsed snippet is indexed under.
IndexedUnder(snippet) ==
    IF Len(snippet.cursorMarkerOptions) > 0 THEN snippet.cursorMarkerOptions ELSE <<"instant">>

\* Snippet k of the parsed list (in declaration order) is a candidate for
\* the activation kind, its alias included.
Candidate(k, triggerAction) ==
    /\ parsedSnippets[k].isValid
    /\ \E j \in 1..Len(PartnerActions(triggerAction)) :
          OptionsInclude(IndexedUnder(parsedSnippets[k]), PartnerActions(triggerAction)[j])

\* The trigger of snippet k matches in the context.
TriggerMatches(k, context, triggerAction) ==
    /\ shouldEvaluateInstantTrigger(parsedSnippets[k], context, triggerAction)
    /\ matchesTrigger(compileTrigger(parsedSnippets[k].trigger),
                      IF triggerAction = "instant" THEN context.afterText ELSE context.beforeText,
                      context.cursorCharIndex, triggerAction)

Accepted(context, triggerAction) ==
    { k \in 1..Len(parsedSnippets) :
        Candidate(k, triggerAction) /\ TriggerMatches(k, context, triggerAction) }

FirstDeclared(accepted) == CHOOSE k \in accepted : \A j \in accepted : k <= j

HandsOverFirstDeclared(accepted) ==
    IF accepted = {} THEN ~mResult.found
    ELSE mResult.found /\ mResult.snippet = parsedSnippets[FirstDeclared(accepted)]

\* C14: checkForSnippetTrigger hands at most one snippet to the executor,
\* and it is the first-declared candidate (alias candidates included) whose
\* trigger matches.
C14_AsStated == Checked => HandsOverFirstDeclared(Accepted(mIn.context, mIn.triggerAction))

\* The trigger without its cursor placeholder, in any of its spellings.
WithoutPlaceholder(trigger, marker) ==
    IF marker.found THEN Slice(trigger, 0, marker.index) \o SliceFrom(trigger, marker.end)
    ELSE trigger

LiteralPortion(trigger) == WithoutPlaceholder(trigger, CursorMarkerExec(trigger, 0))

LastLiteralIs(trigger, typed) ==
    LiteralPortion(trigger) # <<>> => getLastNormalizedGrapheme(LiteralPortion(trigger)) = typed

\* C15: under instant activation a candidate is passed to the matcher only
\* if the last grapheme of its trigger's literal portion, the placeholder
\* stripped whatever its spelling, equals the grapheme just typed; and the
\* snippet handed to the executor is never one whose last literal grapheme
\* differs from it.
C15_AsStated ==
    (Checked /\ mIn.triggerAction = "instant") =>
        /\ \A k \in 1..Len(parsedSnippets) :
              (/\ Candidate(k, "instant")
               /\ shouldEvaluateInstantTrigger(parsedSnippets[k], mIn.context, "instant"))
                 => LastLiteralIs(parsedSnippets[k].trigger, mIn.context.triggerKey)
        /\ mResult.found => LastLiteralIs(mResult.snippet.trigger, mIn.context.triggerKey)


(***************************************************************************)
(* A probe of TextReplacementService.replaceText.  A note is open with the *)
(* cursor somewhere in it; replaceText is called for a snippet with the    *)
(* match that findMatchAtCursor finds and locateCurrentMatch finds again   *)
(* in the same text, under an activation kind of the trigger; then the     *)
(* timers of waitForReplacementToComplete run.                             *)
(***************************************************************************)
MaxNoteLen == 3

\* 'foo\nbtw\nbar' with one letter for foo, two for btw, one for bar.
BtwNote == <<"a", "\n", "a", "b", "\n", "b">>

NoteTexts == StrsUpTo({"a", "b", "\n"}, MaxNoteLen) \cup {BtwNote}

Expansion(trigger, replacement) ==
    [trigger |-> trigger, replacement |-> StringArray(replacement), commands |-> Absent]

ReplaceConfig ==
    << Expansion(<<"a", "b">> \o Placeholder(Spell("instant")), << <<"x", "y", "$", "0">> >>),
       Expansion(Regex(<<"(", "a", "*", ")", "b">>
                       \o Placeholder(Spell("instant") \o <<",">> \o Spell("backspace"))),
                 << <<"$", "1", "x", "$", "0", "y">> >>),
       Expansion(<<"a", "b">> \o Placeholder(Spell("backspace") \o <<",">> \o Spell("tab")),
                 << <<"x">>, <<"y">> >>),
       Expansion(Regex(<<"a", "*">> \o Placeholder(Spell("backspace"))),
                 << <<"x", "$", "{", "0", "}">> >>) >>

ReplaceSnippets == validateAndParseSnippets(ReplaceConfig)

ReplaceProbeInit ==
    /\ mIn = None
    /\ mPc = "open"
    /\ mCompiled = None
    /\ mResult = None
    /\ ServiceInit
    /\ docText \in NoteTexts
    /\ docCursor \in 0..Len(docText)
    /\ selected = FALSE
    /\ phase = "idle"
    /\ evt = NoKeystroke
    /\ timers = <<>>
    /\ userActions = 0
    /\ pendingInstantInput = NoPending
    /\ lastKeyboardInstantTimestamp = "null"
    /\ executing = FALSE
    /\ calls = {}
    /\ started = 0
    /\ lastCall = None
    /\ lastOutcome = None
    /\ commandLog = <<>>
    /\ settingsJsonc = None
    /\ savedJsonc = None
    /\ listenerValid = TRUE
    /\ mainPc = "idle"
    /\ loads = 0
    /\ lastLoadFailed = FALSE
    /\ commandDelay = DEFAULT_COMMAND_DELAY
    /\ listeners = {1}
    /\ unregisterExpansionListener = 1

\* replaceText is called with currentMatch, up to its await.
ReplaceTextCalled(snippet, currentMatch, triggerAction, st) ==
    /\ currentMatch.found
    /\ mIn' = [snippet |-> snippet, currentText |-> docText, cursor |-> docCursor,
               match |-> currentMatch, triggerAction |-> triggerAction]
    /\ Commit(replaceText(st, st.started, snippet, docText, currentMatch, triggerAction))

\* The match is looked for at the cursor and located again, as
\* performTextReplacement does it, with the text of the match as the text
\* that is expected.
LocateAndReplace(snippet, compiled, atCursor) ==
    /\ atCursor.found
    /\ \E j \in DOMAIN compiled.options :
          ReplaceTextCalled(snippet,
                            locateCurrentMatch(compiled, docText, RemoveFirstMarker(atCursor.text),
                                               atCursor, docCursor),
                            compiled.options[j], BeginExecution(ExecutorNow))

CallReplaceText ==
    /\ mPc = "open"
    /\ \E k \in DOMAIN ReplaceSnippets :
          LocateAndReplace(ReplaceSnippets[k], compileTrigger(ReplaceSnippets[k].trigger),
                           findMatchAtCursor(compileTrigger(ReplaceSnippets[k].trigger),
                                             docText, docCursor))
    /\ mPc' = "called"
    /\ UNCHANGED <<mCompiled, mResult, serviceVars, settingsVars, selected, phase, evt,
                   userActions, handlerVars, commandLog>>

ReplaceProbeNext == CallReplaceText \/ TimerFire

SpecReplace == ReplaceProbeInit /\ [][ReplaceProbeNext]_vars


(***************************************************************************)
(* Properties of replaceText.                                              *)
(***************************************************************************)
ReplaceTextCalledOnce == mPc = "called"

ReplaceTextReturned == mPc = "called" /\ calls = {}

\* The span of the match replaceText was given.
MatchSpan == [start |-> mIn.match.indices[1][1], end |-> mIn.match.indices[1][2]]

\* The span it replaces: the match span, which under backspace gives up its
\* last character when it has one.
SpanReplaced ==
    IF mIn.triggerAction = "backspace" /\ MatchSpan.end > MatchSpan.start
    THEN [start |-> MatchSpan.start, end |-> MatchSpan.end - 1]
    ELSE MatchSpan

\* The replacement without its cursor markers and with the capture groups
\* of the match filled in.
FinalReplacementText ==
    substituteCaptureGroups(removeCursorMarkers(JoinLines(mIn.snippet.replacement)), mIn.match)

\* The note is the note replaceText found, with the final replacement text
\* in the place of the span.
ExactlyTheSpan(span) ==
    docText = Slice(mIn.currentText, 0, span.start) \o FinalReplacementText
                \o SliceFrom(mIn.currentText, span.end)

MarkerInReplacement == findCursorPositionInReplacement(JoinLines(mIn.snippet.replacement))

\* The offset of the cursor marker within the final replacement text: the
\* length of what the text before the marker becomes, or the length of the
\* final text when there is no marker.
FinalCursorOffset ==
    IF MarkerInReplacement = -1 THEN Len(FinalReplacementText)
    ELSE Len(substituteCaptureGroups(
                 removeCursorMarkers(Slice(JoinLines(mIn.snippet.replacement), 0,
                                           MarkerInReplacement)),
                 mIn.match))

\* C17: when replaceText has returned, the cursor is at the start of the
\* replacement plus the offset of the cursor marker within the final
\* replacement text, and at the end of the inserted text when the
\* replacement has no marker.
C17_AsStated ==
    ReplaceTextReturned => docCursor = SpanReplaced.start + FinalCursorOffset


BackspaceActivation == ReplaceTextCalledOnce /\ mIn.triggerAction = "backspace"

OtherActivation == ReplaceTextCalledOnce /\ mIn.triggerAction # "backspace"

C19_AsStated == BackspaceActivation => ExactlyTheSpan(MatchSpan)


(***************************************************************************)
(* A probe of RegexMatcher.locateCurrentMatch.  A trigger is compiled and  *)
(* its match is looked for at the cursor of a text; then the match is      *)
(* located in a live text, which may be another text with another cursor,  *)
(* with or without the match found first as the preferred match, and with  *)
(* or without a cursor index.                                              *)
(***************************************************************************)
MaxLiveLen == 3

LiveTexts == StrsUpTo(TextAlphabet, MaxLiveLen)

\* Triggers whose matches hold the cursor marker always, never, or when the
\* cursor is at the right place.
LocateTriggers ==
    { <<"a">> \o Placeholder(Spell("instant")),
      <<"a">>,
      Regex(<<"a", "$", "0", "?">>),
      Regex(<<"a", ".">>) }

ExpectedTexts == {<<"a">>, <<"a", "b">>, <<"a", "a">>}

LocateProbeInit ==
    /\ mIn = None
    /\ mPc = "start"
    /\ mCompiled = None
    /\ mResult = None
    /\ ServiceInit
    /\ MainOff

\* findMatchAtCursor at the time the trigger is detected.
DetectMatch ==
    /\ mPc = "start"
    /\ \E trigger \in LocateTriggers, text \in LiveTexts :
       \E cursorIndex \in 0..Len(text) :
          /\ mCompiled' = compileTrigger(trigger)
          /\ mIn' = [text |-> text, cursorIndex |-> cursorIndex]
          /\ mResult' = findMatchAtCursor(mCompiled', text, cursorIndex)
    /\ mPc' = "detected"
    /\ UNCHANGED <<serviceVars, mainVars>>

LocateCalled(text, cursorGiven, cursorIndex, expectedMatchText, preferredMatch) ==
    /\ mIn' = [text |-> text, cursorGiven |-> cursorGiven, cursorIndex |-> cursorIndex,
               expectedMatchText |-> expectedMatchText, preferredMatch |-> preferredMatch]
    /\ mResult' = IF cursorGiven
                  THEN locateCurrentMatch(mCompiled, text, expectedMatchText, preferredMatch,
                                          cursorIndex)
                  ELSE locateWithoutCursor(mCompiled, text, expectedMatchText, preferredMatch)

\* locateCurrentMatch in the live text.
LocateMatch ==
    /\ mPc = "detected"
    /\ \E text \in LiveTexts, expectedMatchText \in ExpectedTexts, cursorGiven \in BOOLEAN :
       \E cursorIndex \in IF cursorGiven THEN 0..Len(text) ELSE {0} :
       \E preferredMatch \in {mResult, NoMatch} :
          LocateCalled(text, cursorGiven, cursorIndex, expectedMatchText, preferredMatch)
    /\ mPc' = "located"
    /\ UNCHANGED <<mCompiled, serviceVars, mainVars>>

LocateProbeNext == DetectMatch \/ LocateMatch

SpecLocate == LocateProbeInit /\ [][LocateProbeNext]_vars

(***************************************************************************)
(* Properties of locateCurrentMatch.                                       *)
(***************************************************************************)
Located == mPc = "located"

\* The matches of the pattern in the live text, the cursor marked in it when
\* a cursor index was given.
LiveMatches ==
    collectMatches(mCompiled.regex,
                   IF mIn.cursorGiven THEN TextWithCursor(mIn.text, mIn.cursorIndex)
                   ELSE mIn.text)

\* The match spans the place of the live cursor.
ContainsCursor(match) ==
    /\ mIn.cursorGiven
    /\ match.index <= mIn.cursorIndex
    /\ mIn.cursorIndex < match.indices[1][2]

HasExpectedText(match) ==
    SelectSeq(match.text, LAMBDA c : c # CURSOR_MARKER_CHAR) = mIn.expectedMatchText

SameTextMatches(matches) == {k \in DOMAIN matches : HasExpectedText(matches[k])}

Returned(match) == mResult.found /\ mResult.index = match.index

\* What the priority of the claim allows locateCurrentMatch to return, given
\* the matches of the live text and those of them with the expected text.
ByPriority(matches, same) ==
    IF \E k \in same : ContainsCursor(matches[k])
    THEN \E k \in same : ContainsCursor(matches[k]) /\ Returned(matches[k])
    ELSE IF mIn.preferredMatch.found
            /\ \E k \in same : matches[k].index = mIn.preferredMatch.index
         THEN mResult.found /\ mResult.index = mIn.preferredMatch.index
                /\ HasExpectedText(mResult)
    ELSE IF mIn.preferredMatch.found /\ same # {}
         THEN \E k \in same :
                 /\ Returned(matches[k])
                 /\ \A j \in same :
                       Distance(matches[k].index, mIn.preferredMatch.index)
                           <= Distance(matches[j].index, mIn.preferredMatch.index)
    ELSE IF same # {} THEN \E k \in same : Returned(matches[k])
    ELSE ~mResult.found

MaxCommands == 3

MaxCommandCalls == 2

CommandIds == {"editor:toggle-bold", "missing:command"}

\* The values the caller of updateCommandDelay passes.
Delays == {-10, 0, 30, 200}

CommandLists == StrsUpTo(CommandIds, MaxCommands)

CommandSnippets ==
    {[trigger |-> <<"a">>, replacement |-> replacement, commands |-> commands] :
        replacement \in {<<>>, << <<"x">> >>}, commands \in CommandLists}

CommandsProbeInit ==
    /\ mIn = None
    /\ mPc = "commands"
    /\ mCompiled = None
    /\ mResult = None
    /\ ServiceInit
    /\ MainOff

\* ExpansionService.updateCommandDelay, from saveSettings.
UpdateCommandDelay ==
    /\ userActions < MaxUserActions
    /\ userActions' = userActions + 1
    /\ \E delay \in Delays : commandDelay' = updateCommandDelay(delay)
    /\ UNCHANGED <<probeVars, serviceVars, editorVars, phase, evt, timers, handlerVars,
                   executorVars, settingsJsonc, savedJsonc, listenerValid, mainPc, loads,
                   listeners, unregisterExpansionListener,
                   lastLoadFailed>>

ExecuteCommandsCalled(snippet, st) == Commit(executeCommands(st, st.started, snippet))

\* The executor calls executeCommands, the text replaced.
CallExecuteCommands ==
    /\ ~executing
    /\ started < MaxCommandCalls
    /\ \E snippet \in CommandSnippets :
          ExecuteCommandsCalled(snippet, BeginExecution(ExecutorNow))
    /\ UNCHANGED <<probeVars, serviceVars, settingsVars, selected, phase, evt, userActions,
                   handlerVars, commandLog>>

CommandsProbeNext == UpdateCommandDelay \/ CallExecuteCommands \/ SaveDone \/ TimerFire

SpecCommands == CommandsProbeInit /\ [][CommandsProbeNext]_vars

(***************************************************************************)
(* Properties of runCommandSequence.                                       *)
(***************************************************************************)
\* The one wait that is pending lasts `delay`.
OneWaitOf(ts, delay) == Len(ts) = 1 /\ ts[1].kind = "wait" /\ ts[1].delay = delay

\* Invocation c goes on from the await it is suspended at.
Resumes(c) == c \in calls /\ calls' # calls

LastCommand(c) == c.next + 1 = Len(c.snippet.commands)

\* The sequence of c starts: the save has settled and the replacement is
\* verified.
SequenceStarts(c) == c.stage = "saving" /\ Resumes(c) /\ calls' # {}

\* The wait before command c.next + 1 is over: the command is attempted.
CommandAttempted(c) == c.stage = "waiting" /\ Resumes(c)

FlooredDelay == IF commandDelay >= MIN_INITIAL_COMMAND_DELAY THEN commandDelay
                ELSE MIN_INITIAL_COMMAND_DELAY

WaitsOf(c) ==
    /\ SequenceStarts(c) => OneWaitOf(timers', FlooredDelay)
    /\ CommandAttempted(c) =>
          /\ IF LastCommand(c) THEN timers' = <<>> ELSE OneWaitOf(timers', commandDelay)
          /\ commandLog' \in {commandLog, Append(commandLog, c.snippet.commands[c.next + 1])}

\* C21: the commands are run one at a time, in the order of the list; the
\* wait before the first command is the larger of the configured delay and
\* the 50 ms floor, the wait after any command but the last is the
\* configured delay, once, whether the command ran, was not found or threw,
\* and there is no wait after the last command.
C21_WaitsBetweenCommands == [][\A c \in calls : WaitsOf(c)]_vars

\* The second wait of a sequence is shorter than the floor, after a first
\* command that was not run.
C21_Witness ==
    \E c \in calls :
        /\ c.stage = "waiting"
        /\ c.next = 1
        /\ commandLog = <<>>
        /\ OneWaitOf(timers, commandDelay)
        /\ commandDelay < MIN_INITIAL_COMMAND_DELAY

AttemptsOf(c) ==
    CommandAttempted(c) =>
        IF LastCommand(c)
        THEN calls' = {} /\ ~executing' /\ lastOutcome' = "finished"
        ELSE calls' = {[c EXCEPT !.next = @ + 1]} /\ executing'

\* Where a sequence that is under way stands: the commands before c.next + 1
\* have been attempted, the others have not.
InSequence(c) ==
    c.stage = "waiting" => c.next < Len(c.snippet.commands) /\ Len(timers) = 1

\* C22: every command of the list is attempted once, in order: after the
\* attempt of a command, whether it ran, was not found or threw, the
\* sequence is at the next command, and after the last one it ends without
\* an error.
C22_EveryCommandAttempted ==
    /\ [](\A c \in calls : InSequence(c))
    /\ [][\A c \in calls : AttemptsOf(c)]_vars

\* The third command of a list is yet to be attempted, after a first that
\* was not found and a second that threw.
C22_Witness ==
    \E c \in calls :
        /\ c.stage = "waiting"
        /\ c.next = 2
        /\ c.snippet.commands[1] = "missing:command"
        /\ c.snippet.commands[2] = "editor:toggle-bold"
        /\ commandLog = <<>>


(***************************************************************************)
(* matchesTrigger, one call of regex.exec at a time.  A regex object keeps *)
(* its lastIndex from one call to the next, and a call of exec lasts what  *)
(* the engine needs for it: it cannot be interrupted, and the clock is     *)
(* read when it has returned a match.  Two compilations of one trigger are *)
(* used in turn, for one kind of event.                                    *)
(***************************************************************************)
MATCH_SAFEGUARD_DURATION_MS == 5000

\* The resolution of the clock of this probe, in milliseconds: an exec that
\* does not backtrack lasts one tick at most.
Tick == 1000

MaxScanTicks == 8

MaxScanLen == 2

MaxScanCalls == 2

ScanTriggers ==
    { <<"a">> \o Placeholder(Spell("instant")),
      Regex(<<"a", "*">>),
      Regex(<<"a", "+">> \o Placeholder(Spell("tab"))),
      Regex(<<"a", ".">>) }

ScanTexts == StrsUpTo(TextAlphabet, MaxScanLen)

ExecDurations == {t * Tick : t \in 0..MaxScanTicks}

Compilations == {1, 2}

NoScan ==
    [regex |-> 0, textWithCursor |-> <<>>, elapsed |-> 0, exit |-> "none", value |-> FALSE,
     calls |-> 0]

ScanProbeInit ==
    /\ mIn \in {[trigger |-> tr, text |-> <<>>, cursorPos |-> 0, eventType |-> eventType] :
                    tr \in ScanTriggers, eventType \in EventTypes}
    /\ mPc = "ready"
    /\ mCompiled = [k \in Compilations |-> [compiled |-> compileTrigger(mIn.trigger), lastIndex |-> 0]]
    /\ mResult = NoScan
    /\ ServiceInit
    /\ MainOff

\* matchesTrigger up to the loop.
CallMatchesTrigger ==
    /\ mPc = "ready"
    /\ mResult.calls < MaxScanCalls
    /\ \E k \in Compilations, input \in ScanTexts :
          \E cursorPos \in 0..Len(input) :
             /\ mIn' = [mIn EXCEPT !.text = input, !.cursorPos = cursorPos]
             /\ mResult' = [regex |-> k, textWithCursor |-> InsertCursorMarker(input, cursorPos),
                            elapsed |-> 0, exit |-> "none", value |-> FALSE,
                            calls |-> mResult.calls + 1]
             /\ mCompiled' = [mCompiled EXCEPT ![k].lastIndex = 0]
    /\ mPc' = "scanning"
    /\ UNCHANGED <<serviceVars, mainVars>>

\* The returns of matchesTrigger without the finally block: the lastIndex
\* stays where the loop left it.
ReturnsUnwound(exit, value, elapsed, lastIndex) ==
    /\ mResult' = [mResult EXCEPT !.exit = exit, !.value = value, !.elapsed = elapsed]
    /\ mCompiled' = [mCompiled EXCEPT ![mResult.regex].lastIndex = lastIndex]
    /\ mPc' = "ready"

\* The returns of matchesTrigger: the finally block rewinds the regex.
Returns(exit, value, elapsed, lastIndex) ==
    /\ mResult' = [mResult EXCEPT !.exit = exit, !.value = value, !.elapsed = elapsed]
    /\ mCompiled' = [mCompiled EXCEPT ![mResult.regex].lastIndex = 0]
    /\ mPc' = "ready"

\* The body of the loop for the match that exec has returned at `elapsed`;
\* the Notice of the timeout is shown, or its constructor throws.
LoopBody(match, elapsed) ==
    IF elapsed > MATCH_SAFEGUARD_DURATION_MS
    THEN \/ Returns("timeout", FALSE, elapsed, match.end)
         \/ Returns("exception", FALSE, elapsed, match.end)
    ELSE IF Includes(match.text, CURSOR_MARKER_CHAR)
    THEN Returns("match",
                 eventTypeAllowed(mIn.eventType, mCompiled[mResult.regex].compiled.options),
                 elapsed, match.end)
    ELSE /\ mResult' = [mResult EXCEPT !.elapsed = elapsed]
         /\ mCompiled' = [mCompiled EXCEPT ![mResult.regex].lastIndex = match.end]
         /\ UNCHANGED mPc

ExecReturned(match, elapsed) ==
    IF match.found THEN LoopBody(match, elapsed)
    ELSE Returns("no match", FALSE, elapsed, 0)

\* One call of regex.exec in the loop of matchesTrigger, and what follows
\* it up to the next call.
ExecReturns ==
    /\ mPc = "scanning"
    /\ \E d \in ExecDurations :
          /\ mResult.elapsed + d <= MaxScanTicks * Tick
          /\ ExecReturned(ExecFrom(mCompiled[mResult.regex].compiled.regex, mResult.textWithCursor,
                                   mCompiled[mResult.regex].lastIndex),
                          mResult.elapsed + d)
    /\ UNCHANGED <<mIn, serviceVars, mainVars>>

ScanProbeNext == CallMatchesTrigger \/ ExecReturns

SpecScan == ScanProbeInit /\ [][ScanProbeNext]_vars

(***************************************************************************)
(* Properties of the loop of matchesTrigger.                               *)
(***************************************************************************)
ScanReturned == mPc = "ready" /\ mResult.calls > 0

\* C23: a call of matchesTrigger returns false within the ceiling of 5 s,
\* however long the regex backtracks: the call has returned when the first
\* tick after the ceiling is over.
C23_AsStated == ScanReturned => mResult.elapsed <= MATCH_SAFEGUARD_DURATION_MS + Tick

\* The regex objects are rewound.
Rewound == \A k \in Compilations : mCompiled[k].lastIndex = 0

\* What a call on a newly compiled trigger gives when the guard stays out.
FreshDecision ==
    matchesTrigger(compileTrigger(mIn.trigger), mIn.text, mIn.cursorPos, mIn.eventType)

\* C27: whenever matchesTrigger is not running, after a match, no match, a
\* timeout or an exception, the lastIndex of the regex is 0, and the result
\* of a call that the guard did not end is the result of a call on a newly
\* compiled trigger, whatever was called before and whichever compilation
\* of the trigger is used.
C27_RewoundOnEveryExit ==
    /\ mPc = "ready" => Rewound
    /\ ScanReturned /\ mResult.exit \in {"match", "no match"} => mResult.value = FreshDecision
    /\ ScanReturned /\ mResult.exit \in {"timeout", "exception"} => ~mResult.value

\* The second call has accepted, on the second compilation of the trigger.
C27_Witness ==
    /\ ScanReturned
    /\ mResult.calls = 2
    /\ mResult.regex = 2
    /\ mResult.exit = "match"
    /\ mResult.value
    /\ mIn.cursorPos = 2


(***************************************************************************)
(* Properties of the listeners at work (Spec).                             *)
(***************************************************************************)
\* C24: while text is selected no step triggers an expansion, whichever
\* listener or callback runs; a key that is suppressed is one for which an
\* expansion is triggered at keydown.
C24_AsStated == [][selected => ~ExpansionStarts]_vars

\* The calls of executeSnippet made so far are at least this many: those
\* that passed the guard, and the latest one when the guard rejected it.
CallsOfExecuteSnippet == started + (IF lastCall = "rejected" THEN 1 ELSE 0)

\* C25: a keystroke delivers one trigger context at most, by the keydown
\* timer or by the input listener but not by both, so executeSnippet has
\* been called at most once for each action of the user.
C25_AsStated == CallsOfExecuteSnippet <= userActions


(***************************************************************************)
(* The cache of compiled triggers while the plugin loads, updates and      *)
(* resets its snippets: a listener looks the trigger of a snippet up, and  *)
(* the lookup is recorded.                                                 *)
(***************************************************************************)
LookedUp(trigger) ==
    /\ getCompiledTrigger(trigger)
    /\ mResult' = [trigger |-> trigger, hit |-> CacheHas(compiledTriggers, trigger),
                   value |-> CacheGet(compiledTriggers, trigger)]

\* SnippetService.getCompiledTrigger, called for a snippet of the list.
LookupTrigger ==
    /\ mainPc # "unloaded"
    /\ \E k \in 1..Len(parsedSnippets) : LookedUp(parsedSnippets[k].trigger)
    /\ mPc' = "looked up"
    /\ UNCHANGED <<mIn, mCompiled, mainVars>>

CacheNext == SettingsNext \/ LookupTrigger

SpecCache == SettingsInit /\ [][CacheNext]_vars

(***************************************************************************)
(* Properties of the cache of compiled triggers.                           *)
(***************************************************************************)
\* The trigger an entry of the cache was stored for.
TriggerOf(entry) == SubSeq(entry.key, Len(CacheKey(<<>>)) + 1, Len(entry.key))

\* One entry for a trigger, holding what compileTrigger gives for it.
Memoized ==
    \A entry \in compiledTriggers :
        /\ entry.value = compileTrigger(TriggerOf(entry))
        /\ \A other \in compiledTriggers : other.key = entry.key => other = entry

\* A step in which loadSnippets replaces the snippet list.
ListReloaded == loads' # loads /\ ~lastLoadFailed'

\* A lookup is served from the cache, which has the entry afterwards.
ServedFromCache ==
    mPc = "looked up" =>
        \E entry \in compiledTriggers :
            entry.key = CacheKey(mResult.trigger) /\ entry.value = mResult.value

\* C26: the cache holds one compiled trigger for a trigger string, and a
\* lookup returns it; while the snippet list is not loaded again an entry
\* stays as it is, so a trigger is compiled once and every lookup gets the
\* same compiled trigger; and a step that reloads the snippet list leaves
\* the cache empty.
C26_MemoizedAndCleared ==
    /\ []Memoized
    /\ [][mPc' # mPc \/ mResult' # mResult => ServedFromCache']_vars
    /\ [][loads' = loads => compiledTriggers \subseteq compiledTriggers']_vars
    /\ [][ListReloaded => compiledTriggers' = {}]_vars

\* The snippet list has been reloaded once since a trigger was looked up
\* and compiled: the cache is empty.
C26_Witness ==
    /\ mPc = "looked up"
    /\ ~mResult.hit
    /\ loads = 1
    /\ ~lastLoadFailed
    /\ snippetsValid
    /\ compiledTriggers = {}

(***************************************************************************)
(* SnippetExecutor.executeSnippet, called as the handlers of               *)
(* ExpansionService call it: with the snippet checkForSnippetTrigger has   *)
(* found for the context of a key.  A typed character is in the note when  *)
(* the context is taken; Tab is prevented.  replaceText is also called for *)
(* a match located as the repository's tests locate it, which is the way   *)
(* to its polling.                                                         *)
(***************************************************************************)
MaxPresses == 3

MaxPressLen == 2

PressTexts == StrsUpTo({"a", "b"}, MaxPressLen)

PressKeys == {"a", "b", "Tab"}

PressConfig ==
    << [trigger |-> <<"a", "b">>,
        replacement |-> StringArray(<< <<"x">> >>),
        commands |-> StringArray(<<"editor:toggle-bold", "missing:command">>)],
       [trigger |-> <<"a">> \o Placeholder(Spell("tab")),
        replacement |-> StringArray(<<>>),
        commands |-> StringArray(<<"editor:insert-link">>)],
       [trigger |-> <<"b", "b">>,
        replacement |-> Absent,
        commands |-> Absent] >>

PressProbeInit ==
    /\ mIn = None
    /\ mPc = "open"
    /\ mCompiled = None
    /\ mResult = None
    /\ loadedFrom = PressConfig
    /\ parsedSnippets = validateAndParseSnippets(PressConfig)
    /\ snippetMap = createSnippetMap(validateAndParseSnippets(PressConfig))
    /\ snippetsValid = AllValid(validateAndParseSnippets(PressConfig))
    /\ compiledTriggers = {}
    /\ lastValidationError = NoError
    /\ lastValidSnippets = ArrayJsonc(PressConfig)
    /\ docText \in PressTexts
    /\ docCursor \in 0..Len(docText)
    /\ selected = FALSE
    /\ phase = "idle"
    /\ evt = NoKeystroke
    /\ timers = <<>>
    /\ userActions = 0
    /\ pendingInstantInput = NoPending
    /\ lastKeyboardInstantTimestamp = "null"
    /\ executing = FALSE
    /\ calls = {}
    /\ started = 0
    /\ lastCall = None
    /\ lastOutcome = None
    /\ commandLog = <<>>
    /\ settingsJsonc = None
    /\ savedJsonc = None
    /\ listenerValid = TRUE
    /\ mainPc = "unloaded"
    /\ loads = 0
    /\ lastLoadFailed = FALSE
    /\ commandDelay = DEFAULT_COMMAND_DELAY
    /\ listeners = {}
    /\ unregisterExpansionListener = 0

PressContext(key) ==
    IF key = "Tab" THEN PreventedContext(key, docText, docCursor)
    ELSE InstantContext(key, docText, docCursor)

\* What executeSnippet finds for r: the match of findSnippetMatch and
\* whether locateCurrentMatch finds it again in `text`.
Relocation(r, text) ==
    LET match == findSnippetMatch(r.compiledTrigger, r.context, r.triggerAction)
    IN  [matched |-> match.found,
         located |-> match.found
                     /\ locateCurrentMatch(r.compiledTrigger, text, match.text, match,
                                           r.context.cursorCharIndex).found]

NoRelocation == [matched |-> FALSE, located |-> FALSE]

KeyPressed(key, context, r) ==
    /\ Commit(Dispatch(r, [ExecutorNow EXCEPT !.text = context.afterText,
                                              !.cursor = context.cursorCharIndex]))
    /\ compiledTriggers' = r.cache
    /\ mIn' = [key |-> key, r |-> r, accepted |-> r.found /\ ~executing,
               id |-> started + 1, text |-> context.afterText,
               cursor |-> context.cursorCharIndex, log |-> commandLog,
               relocation |-> IF r.found THEN Relocation(r, context.afterText)
                              ELSE NoRelocation]

\* A handler of ExpansionService takes the context of a key and calls
\* checkForSnippetTrigger, which calls executeSnippet for the snippet found.
PressTriggerKey ==
    /\ mPc \in {"open", "pressed"}
    /\ userActions < MaxPresses
    /\ \E key \in PressKeys :
          KeyPressed(key, PressContext(key),
                     handleTriggerKeyPressed(PressContext(key), compiledTriggers))
    /\ mPc' = "pressed"
    /\ userActions' = userActions + 1
    /\ SettingsUnchanged
    /\ UNCHANGED <<mCompiled, mResult, settingsVars, selected, phase, evt, handlerVars,
                   commandLog>>

\* replaceText and what executeSnippet does after it, for a snippet of the
\* settings and its match located with the text that is expected.
ReplaceLoaded ==
    /\ mPc = "open"
    /\ \E k \in DOMAIN parsedSnippets :
          LocateAndReplace(parsedSnippets[k], compileTrigger(parsedSnippets[k].trigger),
                           findMatchAtCursor(compileTrigger(parsedSnippets[k].trigger),
                                             docText, docCursor))
    /\ mPc' = "called"
    /\ UNCHANGED <<mCompiled, mResult, serviceVars, settingsVars, selected, phase, evt,
                   userActions, handlerVars, commandLog>>

PressProbeNext == PressTriggerKey \/ ReplaceLoaded \/ TimerFire \/ SaveDone

SpecPress == PressProbeInit /\ [][PressProbeNext]_vars

\* The event loop runs what is due: the timers that are set and the
\* continuation of a save, which the host settles; the clock advances, so a
\* poll reaches maxWaitTime.
Fairness ==
    /\ WF_vars(TimerFire)
    /\ WF_vars(PollTimesOut)
    /\ WF_vars(SaveDone)

SpecLive == SpecPress /\ Fairness

(***************************************************************************)
(* Properties of the invocations of executeSnippet (SpecLive, SpecPress).  *)
(***************************************************************************)
\* C28: every invocation of executeSnippet that has set the executing flag
\* ends, with the flag cleared, whether it finishes, finds no match, stops
\* polling at the timeout or fails; nothing is left suspended when the flag
\* is clear, so a later event can expand again.
C28_ExecutionEnds ==
    /\ executing ~> ~executing
    /\ [](~executing => calls = {})

\* A second invocation has been accepted and has ended, after a first one
\* that ran commands.
C28_Witness ==
    /\ mPc = "pressed"
    /\ mIn.accepted
    /\ mIn.id = 2
    /\ started = 2
    /\ ~executing
    /\ calls = {}
    /\ lastOutcome = "finished"
    /\ commandLog # <<>>

(***************************************************************************)
(* Properties of executeSnippet after locateCurrentMatch and with an       *)
(* empty replacement (SpecPress).                                          *)
(***************************************************************************)
\* The last key pressed has started an invocation of executeSnippet.
InvocationStarted == mPc = "pressed" /\ mIn.accepted

\* Its match was found in the context, and locateCurrentMatch has not found
\* it again in the note.
RelocationFailed == InvocationStarted /\ mIn.relocation.matched /\ ~mIn.relocation.located

\* Nothing of the invocation is suspended: no command sequence is under way.
NotSuspended == \A c \in calls : c.id # mIn.id

\* The note is as the key pressed left it.
Untouched == docText = mIn.text /\ docCursor = mIn.cursor

\* C29: when locateCurrentMatch does not find the match again, the attempt
\* is over: text and cursor stay as they are, no command of the snippet is
\* run or waited for, and the invocation does not end with a Notice.
C29_AsStated ==
    RelocationFailed =>
        /\ Untouched
        /\ NotSuspended
        /\ commandLog = mIn.log
        /\ (~executing => lastOutcome # "failed")

\* replaceText has been called for a snippet without replacement text.
CalledEmpty == mPc = "called" /\ Len(mIn.snippet.replacement) = 0

\* executeSnippet has found the match of such a snippet.
PressedEmpty ==
    /\ InvocationStarted
    /\ mIn.relocation.matched
    /\ Len(mIn.r.snippet.replacement) = 0

\* The invocation is in its command sequence, before or after the save.
InCommandSequence(id) == \E c \in calls : c.id = id /\ c.stage \in {"saving", "waiting"}

\* The invocation has ended, and not in the catch block.
EndedWell(id) == (\A c \in calls : c.id # id) /\ ~executing /\ lastOutcome = "finished"

\* The commands are run: none means the invocation is over at once, some
\* means it is in its command sequence until that has ended.
CommandsRun(id, commands) ==
    IF Len(commands) = 0 THEN EndedWell(id) ELSE InCommandSequence(id) \/ EndedWell(id)

\* The note is left alone and the commands are run.
EmptyReplacementSkipsEdit ==
    /\ CalledEmpty =>
          /\ docText = mIn.currentText
          /\ docCursor = mIn.cursor
          /\ CommandsRun(1, mIn.snippet.commands)
    /\ PressedEmpty => Untouched /\ CommandsRun(mIn.id, mIn.r.snippet.commands)

\* A step that calls replaceText or executeSnippet for a snippet with
\* commands and no replacement leaves the invocation in executeCommands.
EmptyReplacementStartsCommands ==
    /\ (mPc = "open" /\ CalledEmpty' /\ Len(mIn'.snippet.commands) > 0)
           => \E c \in calls' : c.id = 1 /\ c.stage = "saving"
    /\ (userActions' # userActions /\ PressedEmpty' /\ Len(mIn'.r.snippet.commands) > 0)
           => \E c \in calls' : c.id = mIn'.id /\ c.stage = "saving"

\* A command sequence ends in the step that runs its last command.
SequenceRunToItsEnd ==
    \A c \in calls :
        (c.stage = "waiting" /\ \A d \in calls' : d.id # c.id)
            => c.next = Len(c.snippet.commands) - 1

\* C30: for a matched snippet with an empty replacement the note's text and
\* cursor stay as they are, and executeCommands runs the snippet's commands,
\* up to the last one.
C30_EmptyReplacementRunsCommands ==
    /\ []EmptyReplacementSkipsEdit
    /\ [][EmptyReplacementStartsCommands /\ SequenceRunToItsEnd]_<<mPc, userActions, calls>>

\* replaceText was called for 'a${0:tab}' with no replacement: the note is
\* as it was and the command of the snippet has been run.
C30_Witness ==
    /\ CalledEmpty
    /\ Len(mIn.snippet.commands) = 1
    /\ EndedWell(1)
    /\ docText = mIn.currentText
    /\ commandLog = <<"editor:insert-link">>

(***************************************************************************)
(* TextReplacementService.substituteCaptureGroups, called with a           *)
(* replacement text made of literal characters and references $n, and      *)
(* with a match of a pattern with capture groups.                          *)
(***************************************************************************)
MaxTokens == 3

\* A token of the replacement text: a reference $n for n >= 1, the letter x
\* for 0, a dollar sign for -1.
SubstTokens == {-1, 0, 1, 2, 3, 12}

TokenLists == UNION {[1..n -> SubstTokens] : n \in 0..MaxTokens}

RECURSIVE ToDigits(_)
ToDigits(n) == IF n < 10 THEN <<DIGITS[n + 1]>> ELSE ToDigits(n \div 10) \o <<DIGITS[(n % 10) + 1]>>

TokenText(token) ==
    IF token = 0 THEN <<"x">>
    ELSE IF token = -1 THEN <<"$">>
    ELSE <<"$">> \o ToDigits(token)

RECURSIVE TextOfTokens(_)
TextOfTokens(tokens) ==
    IF tokens = <<>> THEN <<>> ELSE TokenText(Head(tokens)) \o TextOfTokens(Tail(tokens))

SubstPatterns ==
    { <<"(", "a", ")", "(", "b", ")">>,
      <<"(", "a", "*", ")", "(", "b", ")">>,
      <<"(", "a", "*", ")">>,
      <<"(", "a", "*", ")", "(", "b", "*", ")", "(", "a", ")">>,
      <<"a", "b">> }

SubstTexts == {<<"a", "b">>, <<"b">>, <<"b", "a">>, <<"a", "a", "b", "a">>}

ExecOnce(pattern, text) == ExecFrom([source |-> pattern, multiline |-> FALSE], text, 0)

\* Matches of /(a)?(b)/ and /(a*)(c)?(b)/ on 'b': an optional group that took
\* no part in the match is undefined.
OptionalGroupMatches ==
    { [found |-> TRUE, index |-> 0, end |-> 1, text |-> <<"b">>,
       caps |-> <<NoCapture, <<0, 1>>>>],
      [found |-> TRUE, index |-> 0, end |-> 1, text |-> <<"b">>,
       caps |-> <<<<0, 0>>, NoCapture, <<0, 1>>>>] }

SubstMatches ==
    {WithIndices(ExecOnce(pattern, text)) :
        <<pattern, text>> \in {pt \in SubstPatterns \X SubstTexts : ExecOnce(pt[1], pt[2]).found}}
    \cup {WithIndices(m) : m \in OptionalGroupMatches}

SubstProbeInit ==
    /\ mIn \in [tokens : TokenLists, match : SubstMatches]
    /\ mPc = "input"
    /\ mCompiled = None
    /\ mResult = None
    /\ ServiceInit
    /\ MainOff

Substitute ==
    /\ mPc = "input"
    /\ mResult' = substituteCaptureGroups(TextOfTokens(mIn.tokens), mIn.match)
    /\ mPc' = "substituted"
    /\ UNCHANGED <<mIn, mCompiled, serviceVars, mainVars>>

SpecSubstitute == SubstProbeInit /\ [][Substitute]_vars

(***************************************************************************)
(* Properties of substituteCaptureGroups.                                  *)
(***************************************************************************)
\* The groups of the match: the text of each, or None for an undefined one.
GroupsOf(match) ==
    [k \in 1..Len(match.caps) |->
        IF match.caps[k] = NoCapture THEN <<None>>
        ELSE Slice(match.text, match.caps[k][1] - match.index, match.caps[k][2] - match.index)]

GroupDefined(groups, k) == k \in DOMAIN groups /\ groups[k] # <<None>>

\* The group a reference $n resolves to.
ResolvedGroup(groups, n) ==
    IF n > 1 /\ GroupDefined(groups, 1) /\ groups[1] = <<>> THEN n - 1 ELSE n

\* What stands for a token in the result.
TokenResult(groups, token) ==
    IF token < 1 THEN TokenText(token)
    ELSE IF GroupDefined(groups, ResolvedGroup(groups, token))
         THEN groups[ResolvedGroup(groups, token)]
    ELSE TokenText(token)

RECURSIVE ResultOfTokens(_, _)
ResultOfTokens(groups, tokens) ==
    IF tokens = <<>> THEN <<>>
    ELSE TokenResult(groups, Head(tokens)) \o ResultOfTokens(groups, Tail(tokens))

\* C31: in the result every reference $n stands replaced by group n of the
\* match, or by group n - 1 when n > 1 and group 1 is the empty string; a
\* reference to an undefined group stays as it is written, and so does
\* every other character.
C31_ReferencesResolved ==
    mPc = "substituted" => mResult = ResultOfTokens(GroupsOf(mIn.match), mIn.tokens)

\* 'x$2$3' with /(a*)(b)/ on 'b': group 1 is empty, so $2 gives group 1 and
\* $3 gives group 2.
C31_Witness ==
    /\ mPc = "substituted"
    /\ mIn.tokens = <<0, 2, 3>>
    /\ Len(mIn.match.caps) = 2
    /\ mIn.match.caps[1] = <<0, 0>>
    /\ mResult = <<"x", "b">>

(***************************************************************************)
(* ExpansionService.handlePreventableKey with the shouldPreventKey and the *)
(* callback that AutoExpander.setupExpansionMechanism hands over: the key  *)
(* is prevented when wouldTriggerSnippet says so, and the context of the   *)
(* note as it is goes to handleTriggerKeyPressed.                          *)
(***************************************************************************)
MaxPreventSnippets == 2

MaxPreventLen == 2

PreventPool ==
    { Bare(<<"a">> \o Placeholder(Spell("newline"))),
      Bare(<<"a">> \o Placeholder(Spell("enter"))),
      Bare(<<"a", "b">> \o Placeholder(Spell("tab") \o <<",">> \o Spell("space"))),
      Bare(Regex(<<"a", "+">> \o Placeholder(Spell("backspace")))),
      Bare(<<"b">> \o Placeholder(Spell("instant") \o <<",">> \o Spell("tab"))),
      Bare(<<"b">>) }

PreventLists == UNION {[1..n -> PreventPool] : n \in 1..MaxPreventSnippets}

PreventTexts == StrsUpTo({"a", "b"}, MaxPreventLen)

LoadPreventable ==
    /\ mPc = "constructed"
    /\ \E snippets \in PreventLists : loadSnippetsFromRaw(snippets)
    /\ mPc' = "loaded"
    /\ UNCHANGED <<mIn, mCompiled, mResult, mainVars>>

\* What handlePreventableKey leaves behind: whether it has prevented the
\* key, and what checkForSnippetTrigger has found for the context if so.
PreventedWith(key, text, cursorIndex, prevent) ==
    [prevented |-> prevent.result,
     r |-> IF prevent.result
           THEN handleTriggerKeyPressed(PreventedContext(key, text, cursorIndex), prevent.cache)
           ELSE NoSnippetMatch(prevent.cache)]

PressPreventable ==
    /\ mPc = "loaded"
    /\ \E text \in PreventTexts, key \in PREVENTABLE_KEYS :
       \E cursorIndex \in 0..Len(text) :
          /\ mIn' = [key |-> key, text |-> text, cursorIndex |-> cursorIndex]
          /\ mResult' = PreventedWith(key, text, cursorIndex,
                                      shouldPreventKey(key, text, cursorIndex, compiledTriggers))
    /\ mPc' = "key handled"
    /\ compiledTriggers' = mResult'.r.cache
    /\ UNCHANGED <<mCompiled, loadedFrom, parsedSnippets, snippetMap, snippetsValid,
                   lastValidationError, lastValidSnippets, mainVars>>

PreventProbeNext == LoadPreventable \/ PressPreventable

SpecPrevent == TriggerProbeInit /\ [][PreventProbeNext]_vars

(***************************************************************************)
(* Properties of handlePreventableKey.                                     *)
(***************************************************************************)
\* C32: when the keydown handler has prevented a key because
\* wouldTriggerSnippet answered true for the note and the cursor,
\* checkForSnippetTrigger finds a snippet for the context made of the same
\* note, cursor and key.
C32_PreventedKeyExpands ==
    (mPc = "key handled" /\ mResult.prevented) => mResult.r.found

\* Enter after 'a' with the snippet 'a${0:newline}': wouldTriggerSnippet is
\* asked for newline, checkForSnippetTrigger for enter.
C32_Witness ==
    /\ mPc = "key handled"
    /\ mIn.key = "Enter"
    /\ mIn.text = <<"a">>
    /\ mIn.cursorIndex = 1
    /\ Len(parsedSnippets) = 1
    /\ parsedSnippets[1].cursorMarkerOptions = <<"newline">>
    /\ mResult.prevented
    /\ mResult.r.found
    /\ mResult.r.triggerAction = "enter"

(***************************************************************************)
(* Properties of the contexts the keydown listener builds (Spec).          *)
(***************************************************************************)
KeydownTimers(ts) == {j \in DOMAIN ts : ts[j].kind = "keydown"}

\* The callback of keydown timer k runs in this step: it is the one that is
\* due, and there is one timer of the kind less.
KeydownCallbackRuns(k) ==
    /\ phase = "idle"
    /\ timers[k].kind = "keydown"
    /\ Due(k)
    /\ Cardinality(KeydownTimers(timers')) < Cardinality(KeydownTimers(timers))

\* The context the callback of a keydown timer builds from the note as it
\* is when the callback runs.
KeydownContext(timer) ==
    TriggerContext(normalizeTriggerKey(timer.key,
                                       extractInsertedText(docText, timer.beforeCharIndex,
                                                           CursorCharIndexNow),
                                       getGraphemeBeforeIndex(docText, CursorCharIndexNow)),
                   extractInsertedText(docText, timer.beforeCharIndex, CursorCharIndexNow),
                   timer.beforeText, docText, CursorCharIndexNow, None)

\* The context goes to checkForSnippetTrigger with an activation kind that
\* is not instant.
NonInstant(context) == getTriggerActionFromKey(context.triggerKey) \notin {"instant", None}

\* Text and cursor index of the matching belong to one state of the note:
\* the text is the note before the key, so the index is the cursor's then.
OneSnapshot(timer, context) ==
    /\ resolveMatchingContext(context, getTriggerActionFromKey(context.triggerKey)).textForMatching
           = timer.beforeText
    /\ resolveMatchingContext(context, getTriggerActionFromKey(context.triggerKey)).cursorIndex
           = timer.beforeCharIndex

\* C33: a context with an activation kind other than instant is matched at
\* a cursor index of the text that is matched, also when it comes from the
\* callback the keydown listener has deferred for a key it did not prevent.
C33_AsStated ==
    [][\A k \in DOMAIN timers :
          (KeydownCallbackRuns(k) /\ NonInstant(KeydownContext(timers[k])))
              => OneSnapshot(timers[k], KeydownContext(timers[k]))]_vars

(***************************************************************************)
(* createSnippetMap after SnippetService.loadSnippetsFromRaw and           *)
(* resetToLastValidSnippets: lists of up to MaxIndexSnippets raw snippets  *)
(* are loaded, and the last valid list is restored.  The pool has a        *)
(* snippet of two kinds, one without a placeholder, and a regex trigger    *)
(* that names a kind twice and does not compile.                           *)
(***************************************************************************)
MaxIndexSnippets == 3

UnclosedGroupTrigger ==
    Regex(<<"(", "a">> \o Placeholder(Spell("tab") \o <<",">> \o Spell("tab")))

IndexPool == { Bare(SpaceTabTrigger), Bare(<<"b">>), Bare(UnclosedGroupTrigger) }

IndexLists == UNION {[1..n -> IndexPool] : n \in 0..MaxIndexSnippets}

LoadIndexed ==
    /\ \E snippets \in IndexLists : loadSnippetsFromRaw(snippets)
    /\ UNCHANGED <<probeVars, mainVars>>

IndexNext == LoadIndexed \/ ResetSnippets

SpecIndex == SnippetsInit /\ [][IndexNext]_vars

\* The snippet names the kind in the placeholder of its trigger, or names
\* no kind there and the kind is instant.
DeclaresKind(snippet, kind) ==
    LET declared == parseCursorMarkerOptions(snippet.trigger)
    IN  IF Len(declared) > 0 THEN OptionsInclude(declared, kind) ELSE kind = "instant"

\* The place of a parsed snippet in the list it was declared in (0-based),
\* read from its id 'snippet-<i>'.
DeclaredAt(snippet) == snippet.id[2]

C35_AsStated ==
    \A i \in 1..Len(parsedSnippets) : \A kind \in EventTypes :
       parsedSnippets[i].isValid =>
          (Indexed(parsedSnippets[i], kind)
              <=> OptionsInclude(compileTrigger(parsedSnippets[i].trigger).options, kind))


(***************************************************************************)
(* Properties of the last valid configuration that SnippetService keeps    *)
(* (SpecSnippets).                                                         *)
(***************************************************************************)
\* getValidationStatus().canReset: `!!this.lastValidSnippets`
canReset == lastValidSnippets # <<>>

\* C36: the last valid serialized form changes only in a load of a list that
\* is not empty and whose snippets are all valid, and is then the serialized
\* form of that list; canReset never goes from true back to false.
C36_RetainedForm ==
    [][/\ lastValidSnippets' # lastValidSnippets =>
             /\ Len(loadedFrom') > 0
             /\ AllValid(parsedSnippets')
             /\ parsedSnippets' = validateAndParseSnippets(loadedFrom')
             /\ lastValidSnippets' = JSONStringify(loadedFrom')
       /\ canReset => canReset']_vars

\* C36 witness: a list with a duplicate is the current one, and a different,
\* fully valid list is still retained.
C36_Witness ==
    /\ canReset
    /\ ~snippetsValid
    /\ Len(loadedFrom) = 2
    /\ Len(JSONParse(lastValidSnippets)) = 1
    /\ JSONParse(lastValidSnippets)[1].trigger = <<"b">>


\* C38: whenever areSnippetsValid() is true, getLastValidationError() is
\* null, also after a load of an empty list.
C38_AsStated == snippetsValid => lastValidationError.isNull

(***************************************************************************)
(* SnippetService.resetToLastValidSnippets with what it returns: lists of  *)
(* up to MaxSnippets raw snippets are loaded, and the last valid one is    *)
(* restored; mResult is the value the call has returned.                   *)
(***************************************************************************)
NoValidConfiguration == "No valid snippet configuration available to reset to"

\* `return { invalidSnippets }` of loadSnippetsFromRaw: no error field.
LoadReturn(parsed) == [error |-> None, invalidSnippets |-> InvalidOnes(parsed)]

\* Variant: the missing configuration is not reported.
ResetReturnSilent == LoadReturn(validateAndParseSnippets(JSONParse(lastValidSnippets)))

ResetReturn ==
    IF lastValidSnippets = <<>>
    THEN [error |-> NoValidConfiguration, invalidSnippets |-> <<>>]
    ELSE LoadReturn(validateAndParseSnippets(JSONParse(lastValidSnippets)))

ResetProbeInit ==
    /\ mIn = None
    /\ mPc = "constructed"
    /\ mCompiled = None
    /\ mResult = None
    /\ ServiceInit
    /\ MainOff

LoadRecorded ==
    /\ \E snippets \in SnippetLists :
          /\ loadSnippetsFromRaw(snippets)
          /\ mResult' = LoadReturn(validateAndParseSnippets(snippets))
    /\ mPc' = "loaded"
    /\ UNCHANGED <<mIn, mCompiled, mainVars>>

ResetRecorded ==
    /\ resetToLastValidSnippets
    /\ mResult' = ResetReturn
    /\ mPc' = "reset"
    /\ UNCHANGED <<mIn, mCompiled, mainVars>>

ResetProbeNext == LoadRecorded \/ ResetRecorded

SpecReset == ResetProbeInit /\ [][ResetProbeNext]_vars

\* After a load of a list that is not empty and fully valid, the retained
\* form reads back as the list that was loaded, and parses to the snippets
\* that are the current ones.
RetainedIsCurrent ==
    (mPc = "loaded" /\ snippetsValid /\ Len(parsedSnippets) > 0) =>
        /\ canReset
        /\ validateAndParseSnippets(JSONParse(lastValidSnippets)) = parsedSnippets

\* A reset with a retained form loads what the form parses to: the set is
\* valid, there is no validation error, no error is returned, and the form
\* stays the retained one.
ResetRestores ==
    (mPc' = "reset" /\ canReset) =>
        /\ parsedSnippets' = validateAndParseSnippets(JSONParse(lastValidSnippets))
        /\ snippetMap' = createSnippetMap(parsedSnippets')
        /\ Len(parsedSnippets') > 0
        /\ snippetsValid'
        /\ lastValidationError'.isNull
        /\ mResult'.error = None
        /\ lastValidSnippets' = lastValidSnippets

\* A reset without a retained form returns the error and changes nothing.
ResetWithoutForm ==
    (mPc' = "reset" /\ ~canReset) =>
        /\ mResult'.error = NoValidConfiguration
        /\ UNCHANGED serviceVars

\* The retained form changes in no step but a load of a list that is not
\* empty and fully valid.
RetainedSinceLoad ==
    lastValidSnippets' # lastValidSnippets =>
        (mPc' = "loaded" /\ snippetsValid' /\ Len(parsedSnippets') > 0)

\* C37: a reset re-loads the most recent list that was loaded fully valid
\* and not empty, and leaves the set valid, without validation error, with
\* the parsed snippets of that load; when there has been no such load, it
\* returns an error and leaves snippets, index, validity and error alone.
C37_ResetRestores ==
    /\ [][ResetRestores /\ ResetWithoutForm /\ RetainedSinceLoad]_<<mPc, serviceVars>>
    /\ []RetainedIsCurrent

\* C37 witness: a reset has loaded the retained one-snippet list again and
\* has returned no error.
C37_Witness ==
    /\ mPc = "reset"
    /\ mResult.error = None
    /\ snippetsValid
    /\ Len(parsedSnippets) = 1
    /\ parsedSnippets[1].trigger = <<"b">>
    /\ parsedSnippets[1].commands = <<"cmd">>
    /\ lastValidationError.isNull


(***************************************************************************)
(* The life of one AutoExpander instance (main.ts): onload, updateSnippets,*)
(* updateSettings, resetToLastValidSnippets and onunload.  Obsidian calls  *)
(* onunload when the plugin is disabled, whatever the instance is awaiting *)
(* at that moment; enabling the plugin again constructs another instance.  *)
(***************************************************************************)
\* AutoExpander.updateSettings(newSettings), with a commandDelay, a
\* snippetsJsonc, both or neither in newSettings.
UpdateSettings ==
    /\ mainPc \in {"idle", "reloading"}
    /\ phase = "idle"
    /\ userActions < MaxUserActions
    /\ userActions' = userActions + 1
    /\ \E withDelay \in BOOLEAN, delay \in Delays :
          commandDelay' = IF withDelay THEN updateCommandDelay(delay) ELSE commandDelay
    /\ \E withSnippets \in BOOLEAN, snippetsJsonc \in JsoncSources :
          IF withSnippets
          THEN /\ savedJsonc' = snippetsJsonc
               /\ settingsJsonc' = snippetsJsonc
               /\ loadSnippets(snippetsJsonc)
               /\ lastLoadFailed' = ~parseJsoncSnippets(snippetsJsonc).error.isNull
               /\ setupExpansionMechanism
               /\ loads' = loads + 1
          ELSE /\ settingsJsonc' = savedJsonc
               /\ UNCHANGED <<serviceVars, savedJsonc, lastLoadFailed, loads, listenerValid,
                              pendingInstantInput, listeners, unregisterExpansionListener>>
    /\ UNCHANGED <<probeVars, editorVars, phase, evt, timers, executorVars,
                   lastKeyboardInstantTimestamp, mainPc>>

\* onunload: cleanup calls the teardown handle, if there is one, and drops it.
Unload ==
    /\ mainPc \in {"idle", "reloading"}
    /\ listeners' = Unregistered(listeners, unregisterExpansionListener)
    /\ unregisterExpansionListener' = 0
    /\ mainPc' = IF mainPc = "idle" THEN "gone" ELSE "reloading after unload"
    /\ UNCHANGED <<probeVars, serviceVars, editorVars, loopVars, handlerVars, executorVars,
                   settingsJsonc, savedJsonc, listenerValid, loads, lastLoadFailed, commandDelay>>

LifecycleNext ==
    Onload \/ UpdateSnippets \/ UpdateSettings \/ ResetToLastValid \/ ResetFinish \/ Unload

SpecLifecycle == SettingsInit /\ [][LifecycleNext]_vars

Unloaded == mainPc \in {"gone", "reloading after unload"}

\* C39: at most one set of expansion listeners is registered at any time,
\* and none is once the plugin has been unloaded.
C39_AsStated ==
    /\ Cardinality(listeners) <= 1
    /\ Unloaded => listeners = {}


(***************************************************************************)
(* The span of the match that locateCurrentMatch returns (SpecLocate).     *)
(***************************************************************************)
\* The text of the live buffer between the offsets of indices[0], as
\* performReplacement reads them.
SpanText(match) == Slice(mIn.text, match.indices[1][1], match.indices[1][2])

\* C40: a match returned by locateCurrentMatch has the expected text once
\* the cursor marker is taken out of it, and the span of its indices[0], as
\* offsets into the live text without the marker, covers that very text.
C40_AsStated ==
    (Located /\ mResult.found) =>
        /\ HasExpectedText(mResult)
        /\ SpanText(mResult) = mIn.expectedMatchText

====
